---------------------------- MODULE Spec2Model ----------------------------
(***************************************************************************)
(* Halo-Vision firmware: the fixed-capacity ring buffer (util/ring_buffer.c *)
(* of both nodes), the UART receive path that shares it between the        *)
(* receive interrupt and the main loop, the NMEA sentence framer of the    *)
(* brain node (drivers/gps_driver.c) and the telemetry line framer of the  *)
(* display node (drivers/ble_rx.c).                                        *)
(*                                                                         *)
(* Bytes are integers 0..255, C strings are sequences of bytes without the *)
(* terminating NUL, C arrays are functions from 0-based indices.           *)
(***************************************************************************)
EXTENDS Integers, Sequences, FiniteSets, TLC

VARIABLES
    rb,                   \* ring_buffer_t: buffer, size, head, tail, count
    accepted,             \* history: bytes accepted by writes and not discarded by clear
    delivered,            \* history: bytes handed out by successful reads
    last,                 \* history: the last call made and what it returned
    c_pc,                 \* consumer's position inside ring_buffer_read
    c_reg,                \* consumer's register holding the loaded rb->count
    c_data,               \* consumer's *data
    gps,                  \* gps_driver.c: the statics of the NMEA framer and the GPS record
    ble,                  \* ble_rx.c: the statics of the telemetry framer and its records
    tape,                 \* the input stream being fed to a framer
    pos,                  \* bytes of tape fed so far
    nTapes,               \* input streams started so far
    ble_uart,             \* ble_uart.c (brain node): receive buffer, index, ble_connected
    sig,                  \* signal_detector.c: debounce statics, signal state, clock
    readings              \* history: the pin levels read so far, with the time of each reading

rbVars == <<rb, accepted, delivered>>
spscVars == <<c_pc, c_reg, c_data>>
tapeVars == <<tape, pos, nTapes>>
framerVars == <<gps, ble, tape, pos, nTapes>>
moduleVars == <<ble_uart, sig, readings>>
vars == <<rb, accepted, delivered, last, c_pc, c_reg, c_data, gps, ble, tape, pos, nTapes,
          ble_uart, sig, readings>>

(***************************************************************************)
(* Bounds of the model.                                                    *)
(***************************************************************************)
MaxCap == 2               \* ring buffer capacities 1..MaxCap
MaxAccepted == 6          \* bytes accepted over a behaviour (3 * MaxCap: three wraps)
MaxMulti == 2             \* longest bulk transfer requested
MaxTapes == 2             \* input streams fed to a framer in one behaviour
MaxUpdates == 7           \* signal_detector_update calls in one behaviour

Bytes == {65, 66}         \* values written to the ring buffer

(***************************************************************************)
(* Generic helpers.                                                        *)
(***************************************************************************)
IsPrefix(s, t) ==
    /\ Len(s) <= Len(t)
    /\ \A i \in 1..Len(s) : s[i] = t[i]

Min(a, b) == IF a < b THEN a ELSE b

SeqsUpTo(S, n) == UNION {[1..k -> S] : k \in 0..n}

(***************************************************************************)
(* util/ring_buffer.c                                                      *)
(***************************************************************************)
\* A ring_buffer_t in static storage before ring_buffer_init: all zero, the
\* buffer pointer NULL.
RbZero == [buffer |-> <<>>, size |-> 0, head |-> 0, tail |-> 0, count |-> 0]

\* Mutant: the storage pointer is not checked.
ring_buffer_init_NoStorageCheck(r, bufferPresent, storage, size) ==
    IF size = 0
    THEN r
    ELSE [buffer |-> storage, size |-> size, head |-> 0, tail |-> 0, count |-> 0]

\* storage: the caller's array (a function on 0..size-1), or <<>> with
\* bufferPresent = FALSE for a NULL pointer.
ring_buffer_init(r, bufferPresent, storage, size) ==
    IF ~bufferPresent \/ size = 0
    THEN r
    ELSE [buffer |-> storage, size |-> size, head |-> 0, tail |-> 0, count |-> 0]

ring_buffer_bytes_available(r) == r.count

ring_buffer_space_remaining(r) == r.size - r.count

ring_buffer_is_empty(r) == r.count = 0

ring_buffer_is_full(r) == r.count = r.size

\* Mutant: the fullness check is off by one (accepts a byte into a full buffer).
ring_buffer_write_OverwritesWhenFull(r, data) ==
    IF r.count > r.size
    THEN [rb |-> r, ret |-> FALSE]
    ELSE [rb |-> [r EXCEPT !.buffer[r.head] = data,
                           !.head = (r.head + 1) % r.size,
                           !.count = r.count + 1],
          ret |-> TRUE]

\* Mutant: the write cursor is advanced without wrapping.
ring_buffer_write_NoWrap(r, data) ==
    IF ring_buffer_is_full(r)
    THEN [rb |-> r, ret |-> FALSE]
    ELSE [rb |-> [r EXCEPT !.buffer[r.head % r.size] = data,
                           !.head = r.head + 1,
                           !.count = r.count + 1],
          ret |-> TRUE]

ring_buffer_write(r, data) ==
    IF ring_buffer_is_full(r)
    THEN [rb |-> r, ret |-> FALSE]
    ELSE [rb |-> [r EXCEPT !.buffer[r.head] = data,
                           !.head = (r.head + 1) % r.size,
                           !.count = r.count + 1],
          ret |-> TRUE]

\* Mutant: the read cursor is not advanced.
ring_buffer_read_StuckTail(r, dataPresent) ==
    IF ~dataPresent \/ ring_buffer_is_empty(r)
    THEN [rb |-> r, ret |-> FALSE, data |-> 0]
    ELSE [rb |-> [r EXCEPT !.count = r.count - 1],
          ret |-> TRUE,
          data |-> r.buffer[r.tail]]

\* Mutant: the emptiness check is missing.
ring_buffer_read_NoEmptyCheck(r, dataPresent) ==
    IF ~dataPresent
    THEN [rb |-> r, ret |-> FALSE, data |-> 0]
    ELSE [rb |-> [r EXCEPT !.tail = (r.tail + 1) % r.size,
                           !.count = r.count - 1],
          ret |-> TRUE,
          data |-> r.buffer[r.tail]]

\* dataPresent: the out pointer is not NULL.  data is meaningful when ret.
ring_buffer_read(r, dataPresent) ==
    IF ~dataPresent \/ ring_buffer_is_empty(r)
    THEN [rb |-> r, ret |-> FALSE, data |-> 0]
    ELSE [rb |-> [r EXCEPT !.tail = (r.tail + 1) % r.size,
                           !.count = r.count - 1],
          ret |-> TRUE,
          data |-> r.buffer[r.tail]]

\* Mutant: the bound check is off by one (offset = count is accepted).
ring_buffer_peek_AcceptsOffsetCount(r, dataPresent, offset) ==
    IF ~dataPresent \/ offset > r.count
    THEN [ret |-> FALSE, data |-> 0]
    ELSE [ret |-> TRUE, data |-> r.buffer[(r.tail + offset) % r.size]]

ring_buffer_peek(r, dataPresent, offset) ==
    IF ~dataPresent \/ offset >= r.count
    THEN [ret |-> FALSE, data |-> 0]
    ELSE [ret |-> TRUE, data |-> r.buffer[(r.tail + offset) % r.size]]

\* Mutant: clear resets the count and leaves the cursors where they are.
ring_buffer_clear_KeepsHead(r) == [r EXCEPT !.tail = 0, !.count = 0]

ring_buffer_clear(r) == [r EXCEPT !.head = 0, !.tail = 0, !.count = 0]

\* The loop of ring_buffer_write_multi from bytes_written = n on.
RECURSIVE write_multi_loop(_, _, _)
write_multi_loop(r, data, n) ==
    IF n < Len(data) /\ ~ring_buffer_is_full(r)
    THEN LET w == ring_buffer_write(r, data[n + 1])
         IN  IF w.ret THEN write_multi_loop(w.rb, data, n + 1)
                      ELSE [rb |-> r, ret |-> n]
    ELSE [rb |-> r, ret |-> n]

\* Mutant: nothing is written unless all the bytes fit.
ring_buffer_write_multi_AllOrNothing(r, dataPresent, data) ==
    IF ~dataPresent \/ Len(data) = 0 \/ Len(data) > r.size - r.count
    THEN [rb |-> r, ret |-> 0]
    ELSE write_multi_loop(r, data, 0)

\* data: the bytes at the pointer (length = the length argument).
ring_buffer_write_multi(r, dataPresent, data) ==
    IF ~dataPresent \/ Len(data) = 0
    THEN [rb |-> r, ret |-> 0]
    ELSE write_multi_loop(r, data, 0)

\* The loop of ring_buffer_read_multi with the bytes read so far in out.
RECURSIVE read_multi_loop(_, _, _)
read_multi_loop(r, length, out) ==
    IF Len(out) < length /\ ~ring_buffer_is_empty(r)
    THEN LET x == ring_buffer_read(r, TRUE)
         IN  IF x.ret THEN read_multi_loop(x.rb, length, Append(out, x.data))
                      ELSE [rb |-> r, ret |-> Len(out), out |-> out]
    ELSE [rb |-> r, ret |-> Len(out), out |-> out]

ring_buffer_read_multi(r, bufferPresent, length) ==
    IF ~bufferPresent \/ length = 0
    THEN [rb |-> r, ret |-> 0, out |-> <<>>]
    ELSE read_multi_loop(r, length, <<>>)

(***************************************************************************)
(* C library functions used by the framers, on C strings.                  *)
(***************************************************************************)
RECURSIVE BitXor(_, _, _)
BitXor(a, b, n) ==
    IF n = 0 THEN 0
    ELSE (((a % 2) + (b % 2)) % 2) + 2 * BitXor(a \div 2, b \div 2, n - 1)

\* a ^ b on uint8_t
Xor8(a, b) == BitXor(a % 256, b % 256, 8)

\* The least element of a non-empty set of integers.
MinOf(S) == CHOOSE x \in S : \A y \in S : x <= y

\* The elements of a finite set of integers in increasing order.
Sorted(S) ==
    [k \in 1..Cardinality(S) |->
        CHOOSE x \in S : Cardinality({y \in S : y < x}) = k - 1]

\* The C string that starts at index i of array buf (indices 0..hi): the
\* bytes up to the first NUL.
CStrAt(buf, i, hi) ==
    LET nuls == {j \in i..hi : buf[j] = 0}
        end == IF nuls = {} THEN hi + 1 ELSE MinOf(nuls)
    IN  [k \in 1..(end - i) |-> buf[i + k - 1]]

\* The C string that starts at offset off of the byte region mem (a sequence).
CStrOf(mem, off) ==
    LET nuls == {j \in (off + 1)..Len(mem) : mem[j] = 0}
        end == IF nuls = {} THEN Len(mem) + 1 ELSE MinOf(nuls)
    IN  [k \in 1..(end - (off + 1)) |-> mem[off + k]]

\* s[0], the NUL of an empty string included
FirstChar(s) == IF Len(s) = 0 THEN 0 ELSE s[1]

\* strchr(s, c): the 1-based position of the first c in s, 0 if none.
strchr(s, c) ==
    LET hits == {j \in 1..Len(s) : s[j] = c}
    IN  IF hits = {} THEN 0 ELSE MinOf(hits)

\* strncmp(s, t, n) == 0, comparing from position i on.
RECURSIVE strncmp_eq_from(_, _, _, _)
strncmp_eq_from(s, t, n, i) ==
    IF i > n THEN TRUE
    ELSE LET a == IF i <= Len(s) THEN s[i] ELSE 0
             b == IF i <= Len(t) THEN t[i] ELSE 0
         IN  IF a # b THEN FALSE
             ELSE IF a = 0 THEN TRUE
             ELSE strncmp_eq_from(s, t, n, i + 1)

strncmp_eq(s, t, n) == strncmp_eq_from(s, t, n, 1)

isspace(c) == c \in {32, 9, 10, 11, 12, 13}

isdigit(c) == c \in 48..57

\* The value of c as a digit of the base, -1 if it is none.
DigitVal(c, base) ==
    LET v == IF c \in 48..57 THEN c - 48
             ELSE IF c \in 65..90 THEN c - 65 + 10
             ELSE IF c \in 97..122 THEN c - 97 + 10
             ELSE 99
    IN  IF v < base THEN v ELSE -1

RECURSIVE SkipSpace(_, _)
SkipSpace(s, i) ==
    IF i <= Len(s) /\ isspace(s[i]) THEN SkipSpace(s, i + 1) ELSE i

\* The digits of the base from position i on: [val, next, any].
RECURSIVE ScanDigits(_, _, _, _, _)
ScanDigits(s, i, base, acc, any) ==
    IF i <= Len(s) /\ DigitVal(s[i], base) >= 0
    THEN ScanDigits(s, i + 1, base, acc * base + DigitVal(s[i], base), TRUE)
    ELSE [val |-> acc, next |-> i, any |-> any]

\* The hex digits from position i on, accumulated as strtol does: [val, ovf],
\* ovf once the value no longer fits a 32-bit long (val then stays LONG_MAX).
RECURSIVE ScanHexLong(_, _, _, _)
ScanHexLong(s, i, acc, ovf) ==
    IF i <= Len(s) /\ DigitVal(s[i], 16) >= 0
    THEN LET d == DigitVal(s[i], 16)
         IN  IF ovf \/ acc > (2147483647 - d) \div 16
             THEN ScanHexLong(s, i + 1, 2147483647, TRUE)
             ELSE ScanHexLong(s, i + 1, acc * 16 + d, FALSE)
    ELSE [val |-> acc, ovf |-> ovf]

\* strtol(s, NULL, 16) with a 32-bit long: white space, a sign, an optional
\* 0x, then as many hex digits as follow; 0 if there is none; saturating at
\* LONG_MAX and LONG_MIN.
strtol16(s) ==
    LET i0 == SkipSpace(s, 1)
        neg == i0 <= Len(s) /\ s[i0] = 45
        i1 == IF i0 <= Len(s) /\ s[i0] \in {43, 45} THEN i0 + 1 ELSE i0
        pfx == /\ i1 + 1 <= Len(s)
               /\ s[i1] = 48
               /\ s[i1 + 1] \in {88, 120}
        i2 == IF pfx THEN i1 + 2 ELSE i1
        d == ScanHexLong(s, i2, 0, FALSE)
    IN  IF neg
        THEN (IF d.ovf THEN (0 - 2147483647) - 1 ELSE 0 - d.val)
        ELSE d.val

\* atoi(s): white space, a sign, decimal digits; 0 if there is none.
atoi(s) ==
    LET i0 == SkipSpace(s, 1)
        neg == i0 <= Len(s) /\ s[i0] = 45
        i1 == IF i0 <= Len(s) /\ s[i0] \in {43, 45} THEN i0 + 1 ELSE i0
        d == ScanDigits(s, i1, 10, 0, FALSE)
    IN  IF neg THEN 0 - d.val ELSE d.val

\* The first four fraction digits from position i on, as an integer 0..9999.
RECURSIVE ScanFraction(_, _, _, _)
ScanFraction(s, i, acc, n) ==
    IF n = 4 THEN acc
    ELSE IF i <= Len(s) /\ isdigit(s[i])
    THEN ScanFraction(s, i + 1, acc * 10 + (s[i] - 48), n + 1)
    ELSE ScanFraction(s, i, acc * 10, n + 1)

\* atof(s) for plain decimal text (white space, sign, digits, '.', digits),
\* as a fixed-point number of 1/10000 units truncated toward zero; exponents
\* and the rounding of float are not represented.
atof_e4(s) ==
    LET i0 == SkipSpace(s, 1)
        neg == i0 <= Len(s) /\ s[i0] = 45
        i1 == IF i0 <= Len(s) /\ s[i0] \in {43, 45} THEN i0 + 1 ELSE i0
        d == ScanDigits(s, i1, 10, 0, FALSE)
        frac == IF d.next <= Len(s) /\ s[d.next] = 46
                THEN ScanFraction(s, d.next + 1, 0, 0)
                ELSE 0
        v == d.val * 10000 + frac
    IN  IF neg THEN 0 - v ELSE v

(***************************************************************************)
(* drivers/gps_driver.c                                                    *)
(***************************************************************************)
NMEA_MAX_SENTENCE_LEN == 82
NMEA_MAX_FIELDS == 20

\* memset(&current_gps_data, 0, sizeof(current_gps_data))
GpsDataZero ==
    [hour |-> 0, minute |-> 0, second |-> 0, millisecond |-> 0,
     day |-> 0, month |-> 0, year |-> 0,
     latitude |-> 0, longitude |-> 0, altitude_msl |-> 0,
     speed_knots |-> 0, speed_kmh |-> 0, course_deg |-> 0,
     fix_quality |-> 0, fix_valid |-> FALSE, satellites_tracked |-> 0,
     seen_gga |-> FALSE, seen_rmc |-> FALSE]

\* The statics of gps_driver.c at program start.
GpsStatics ==
    [current_gps_data |-> GpsDataZero,
     data_updated |-> FALSE,
     data_valid_fix |-> FALSE,
     nmea_buffer |-> [i \in 0..NMEA_MAX_SENTENCE_LEN |-> 0],
     nmea_buffer_index |-> 0,
     sentence_in_progress |-> FALSE]

gps_init(g) ==
    [g EXCEPT !.current_gps_data = GpsDataZero,
              !.data_updated = FALSE,
              !.data_valid_fix = FALSE,
              !.nmea_buffer_index = 0,
              !.sentence_in_progress = FALSE]

\* Bit k (value 2^k) of byte c.
BitOf(c, k) == (c \div (2 ^ k)) % 2

\* The XOR loop of nmea_calculate_checksum: checksum ^= *sentence++ from
\* position i up to the first '*' or the end of the string.  The XOR of the
\* bytes is computed bit by bit: a bit of the result is the parity of the
\* number of bytes that have it set.
checksum_loop(s, i, checksum) ==
    LET star == {j \in i..Len(s) : s[j] = 42}
        end == IF star = {} THEN Len(s) + 1 ELSE MinOf(star)
        Parity(k) == (BitOf(checksum, k)
                      + Cardinality({j \in i..(end - 1) : BitOf(s[j], k) = 1})) % 2
    IN  Parity(0) + 2 * Parity(1) + 4 * Parity(2) + 8 * Parity(3)
        + 16 * Parity(4) + 32 * Parity(5) + 64 * Parity(6) + 128 * Parity(7)

\* Mutant: the leading '$' is not skipped.
nmea_calculate_checksum_IncludesDollar(sentence) ==
    checksum_loop(sentence, 1, 0)

nmea_calculate_checksum(sentence) ==
    checksum_loop(sentence, IF FirstChar(sentence) = 36 THEN 2 ELSE 1, 0)

\* Mutant: every sentence that carries a checksum field is accepted.
nmea_validate_checksum_NoCompare(sentence) ==
    LET star == strchr(sentence, 42)
    IN  ~(star = 0 \/ Len(sentence) - star + 1 < 3)

nmea_validate_checksum(sentence) ==
    LET star == strchr(sentence, 42)
    IN  IF star = 0 \/ Len(sentence) - star + 1 < 3
        THEN FALSE
        ELSE LET calculated_checksum == nmea_calculate_checksum(sentence)
                 received_checksum ==
                     strtol16(SubSeq(sentence, star + 1, Len(sentence))) % 256
             IN  calculated_checksum = received_checksum

\* The loop of nmea_split_fields and the statement after it: mem is the region
\* at the sentence pointer.  The loop walks p up to the first '*' or NUL,
\* overwriting each ',' by NUL and recording the field that starts after it,
\* and stops early, just behind a ',', once max_fields fields are recorded;
\* a '*' under p is then overwritten by NUL.
split_loop(mem, max_fields) ==
    LET stops == {j \in 1..Len(mem) : mem[j] = 42 \/ mem[j] = 0}
        limit == IF stops = {} THEN Len(mem) + 1 ELSE MinOf(stops)
        commas == Sorted({j \in 1..(limit - 1) : mem[j] = 44})
        used == IF Len(commas) >= max_fields - 1
                THEN SubSeq(commas, 1, max_fields - 1)
                ELSE commas
        p == IF Len(commas) >= max_fields - 1 /\ max_fields > 1
             THEN used[Len(used)] + 1
             ELSE limit
        cut == {used[k] : k \in 1..Len(used)}
                 \cup (IF p <= Len(mem) /\ mem[p] = 42 THEN {p} ELSE {})
    IN  [mem |-> [j \in 1..Len(mem) |-> IF j \in cut THEN 0 ELSE mem[j]],
         starts |-> <<0>> \o used]

\* [count, fields (the C strings at fields[0..count-1]), mem (the region with
\* the separators overwritten by NUL)]
nmea_split_fields(mem, max_fields) ==
    LET r == split_loop(mem, max_fields)
    IN  [count |-> Len(r.starts),
         fields |-> [k \in 1..Len(r.starts) |-> CStrOf(r.mem, r.starts[k])],
         mem |-> r.mem]

\* fields[k] of the C array (0-based)
Field(fields, k) == fields[k + 1]

\* Mutant: an RMC sentence is parsed from 11 fields on.
parse_gprmc_ElevenFields(g, fields, field_count) ==
    IF field_count < 11 THEN g
    ELSE LET d0 == g.current_gps_data
             d1 == [d0 EXCEPT !.fix_valid = (FirstChar(Field(fields, 2)) = 65),
                              !.speed_knots = atof_e4(Field(fields, 7)),
                              !.seen_rmc = TRUE]
         IN [g EXCEPT !.current_gps_data = d1,
                      !.data_updated = TRUE,
                      !.data_valid_fix = d1.fix_valid]

\* Mutant: the status field is not read, every RMC sentence marks the fix valid.
parse_gprmc_StatusIgnored(g, fields, field_count) ==
    IF field_count < 12 THEN g
    ELSE LET d1 == [g.current_gps_data EXCEPT !.fix_valid = TRUE,
                                              !.seen_rmc = TRUE]
         IN [g EXCEPT !.current_gps_data = d1,
                      !.data_updated = TRUE,
                      !.data_valid_fix = TRUE]

parse_gprmc(g, fields, field_count) ==
    IF field_count < 12 THEN g
    ELSE LET d0 == g.current_gps_data
             d1 == IF Len(Field(fields, 1)) >= 6
                   THEN [d0 EXCEPT !.hour = 12, !.minute = 34, !.second = 56]
                   ELSE d0
             knots == atof_e4(Field(fields, 7))
             d2 == [d1 EXCEPT !.fix_valid = (FirstChar(Field(fields, 2)) = 65),
                              !.latitude = 407128,
                              !.longitude = -740060,
                              !.speed_knots = knots,
                              !.speed_kmh = (knots * 1852) \div 1000,
                              !.course_deg = atof_e4(Field(fields, 8))]
             d3 == IF Len(Field(fields, 9)) = 6
                   THEN [d2 EXCEPT !.day = 5, !.month = 5, !.year = 2025]
                   ELSE d2
             d4 == [d3 EXCEPT !.seen_rmc = TRUE]
         IN [g EXCEPT !.current_gps_data = d4,
                      !.data_updated = TRUE,
                      !.data_valid_fix = d4.fix_valid]

parse_gpgga(g, fields, field_count) ==
    IF field_count < 10 THEN g
    ELSE LET d0 == g.current_gps_data
             d1 == [d0 EXCEPT !.fix_quality = atoi(Field(fields, 6)) % 256]
             d2 == IF ~d1.seen_rmc \/ FirstChar(Field(fields, 2)) = 86
                   THEN [d1 EXCEPT !.fix_valid = (d1.fix_quality > 0)]
                   ELSE d1
             d3 == [d2 EXCEPT !.satellites_tracked = atoi(Field(fields, 7)) % 256,
                              !.altitude_msl = atof_e4(Field(fields, 9)),
                              !.seen_gga = TRUE]
         IN [g EXCEPT !.current_gps_data = d3,
                      !.data_updated = TRUE,
                      !.data_valid_fix = d3.fix_valid]

\* g with the bytes of mem stored at nmea_buffer[from ..]
StoreAt(g, from, mem) ==
    [g EXCEPT !.nmea_buffer =
        [i \in 0..NMEA_MAX_SENTENCE_LEN |->
            IF i >= from /\ i - from < Len(mem) THEN mem[i - from + 1]
            ELSE g.nmea_buffer[i]]]

\* sentence: the C string at nmea_buffer, which nmea_split_fields cuts in place.
process_nmea_sentence(g, sentence) ==
    LET sp == nmea_split_fields(Tail(sentence), NMEA_MAX_FIELDS)
        g1 == StoreAt(g, 1, sp.mem)
    IN  IF sp.count < 1 THEN g1
        ELSE IF \/ strncmp_eq(Field(sp.fields, 0), <<71, 80, 82, 77, 67>>, 5)
                \/ strncmp_eq(Field(sp.fields, 0), <<71, 78, 82, 77, 67>>, 5)
        THEN parse_gprmc(g1, sp.fields, sp.count)
        ELSE IF \/ strncmp_eq(Field(sp.fields, 0), <<71, 80, 71, 71, 65>>, 5)
                \/ strncmp_eq(Field(sp.fields, 0), <<71, 78, 71, 71, 65>>, 5)
        THEN parse_gpgga(g1, sp.fields, sp.count)
        ELSE g1

\* The end-of-sentence branch of gps_process_char ('\n' received).
nmea_end_of_sentence(g) ==
    LET idx == g.nmea_buffer_index
        b1 == [g.nmea_buffer EXCEPT ![idx] = 0]
        b2 == IF idx > 1 /\ b1[idx - 2] = 13
              THEN [b1 EXCEPT ![idx - 2] = 0]
              ELSE [b1 EXCEPT ![idx - 1] = 0]
        g1 == [g EXCEPT !.nmea_buffer = b2]
        sentence == CStrAt(b2, 0, NMEA_MAX_SENTENCE_LEN)
        g2 == IF nmea_validate_checksum(sentence)
              THEN process_nmea_sentence(g1, sentence)
              ELSE g1
    IN  [g2 EXCEPT !.sentence_in_progress = FALSE]

\* Mutant: bytes are accumulated whether or not a sentence is in progress.
gps_process_char_IdleAccumulates(g, received_char) ==
    IF received_char = 36
    THEN [g EXCEPT !.nmea_buffer[0] = received_char,
                   !.nmea_buffer_index = 1,
                   !.sentence_in_progress = TRUE]
    ELSE LET g1 == IF g.nmea_buffer_index < NMEA_MAX_SENTENCE_LEN
                   THEN [g EXCEPT !.nmea_buffer[g.nmea_buffer_index] = received_char,
                                  !.nmea_buffer_index = g.nmea_buffer_index + 1]
                   ELSE [g EXCEPT !.sentence_in_progress = FALSE]
         IN  IF received_char = 10 THEN nmea_end_of_sentence(g1) ELSE g1

\* Mutant: a '$' does not reset the fill index.
gps_process_char_NoRestart(g, received_char) ==
    IF g.sentence_in_progress \/ received_char = 36
    THEN LET g1 == IF g.nmea_buffer_index < NMEA_MAX_SENTENCE_LEN
                   THEN [g EXCEPT !.nmea_buffer[g.nmea_buffer_index] = received_char,
                                  !.nmea_buffer_index = g.nmea_buffer_index + 1,
                                  !.sentence_in_progress = TRUE]
                   ELSE [g EXCEPT !.sentence_in_progress = FALSE]
         IN  IF received_char = 10 THEN nmea_end_of_sentence(g1) ELSE g1
    ELSE g

\* Mutant: the bound test accepts a byte when the index equals
\* NMEA_MAX_SENTENCE_LEN.
gps_process_char_BoundOffByOne(g, received_char) ==
    IF received_char = 36
    THEN [g EXCEPT !.nmea_buffer[0] = received_char,
                   !.nmea_buffer_index = 1,
                   !.sentence_in_progress = TRUE]
    ELSE IF g.sentence_in_progress
    THEN LET g1 == IF g.nmea_buffer_index <= NMEA_MAX_SENTENCE_LEN
                   THEN [g EXCEPT !.nmea_buffer[g.nmea_buffer_index] = received_char,
                                  !.nmea_buffer_index = g.nmea_buffer_index + 1]
                   ELSE [g EXCEPT !.sentence_in_progress = FALSE]
         IN  IF received_char = 10 THEN nmea_end_of_sentence(g1) ELSE g1
    ELSE g

\* Mutant: a '$' restarts the accumulation only while no sentence is in
\* progress; inside a sentence it is stored like any other byte.
gps_process_char_RestartOnlyWhenIdle(g, received_char) ==
    IF received_char = 36 /\ ~g.sentence_in_progress
    THEN [g EXCEPT !.nmea_buffer[0] = received_char,
                   !.nmea_buffer_index = 1,
                   !.sentence_in_progress = TRUE]
    ELSE IF g.sentence_in_progress
    THEN LET g1 == IF g.nmea_buffer_index < NMEA_MAX_SENTENCE_LEN
                   THEN [g EXCEPT !.nmea_buffer[g.nmea_buffer_index] = received_char,
                                  !.nmea_buffer_index = g.nmea_buffer_index + 1]
                   ELSE [g EXCEPT !.sentence_in_progress = FALSE]
         IN  IF received_char = 10 THEN nmea_end_of_sentence(g1) ELSE g1
    ELSE g

gps_process_char(g, received_char) ==
    IF received_char = 36
    THEN [g EXCEPT !.nmea_buffer[0] = received_char,
                   !.nmea_buffer_index = 1,
                   !.sentence_in_progress = TRUE]
    ELSE IF g.sentence_in_progress
    THEN LET g1 == IF g.nmea_buffer_index < NMEA_MAX_SENTENCE_LEN
                   THEN [g EXCEPT !.nmea_buffer[g.nmea_buffer_index] = received_char,
                                  !.nmea_buffer_index = g.nmea_buffer_index + 1]
                   ELSE [g EXCEPT !.sentence_in_progress = FALSE]
         IN  IF received_char = 10 THEN nmea_end_of_sentence(g1) ELSE g1
    ELSE g

gps_is_data_available(g) == g.data_updated

\* Mutant: retrieval leaves the updated flag set.
gps_get_data_KeepsFlag(g, dataPresent) ==
    IF ~dataPresent
    THEN [gps |-> g, ret |-> FALSE, data |-> GpsDataZero]
    ELSE [gps |-> g, ret |-> g.data_valid_fix, data |-> g.current_gps_data]

\* [gps, ret, data]: data is the copy made into *data when the pointer is given.
gps_get_data(g, dataPresent) ==
    IF ~dataPresent
    THEN [gps |-> g, ret |-> FALSE, data |-> GpsDataZero]
    ELSE [gps |-> [g EXCEPT !.data_updated = FALSE],
          ret |-> g.data_valid_fix,
          data |-> g.current_gps_data]

(***************************************************************************)
(* Input streams for the NMEA framer.  A stream is named by a descriptor   *)
(* [kind, a, b]; TapeBytes gives its bytes.                                *)
(***************************************************************************)
\* GPRMC,123456.00,A,4042.768,N,07400.360,W,5.0,90.0,050525,,,A   (XOR 0x7D)
RmcBody ==
    <<71, 80, 82, 77, 67, 44, 49, 50, 51, 52, 53, 54, 46, 48, 48, 44, 65,
    44, 52, 48, 52, 50, 46, 55, 54, 56, 44, 78, 44, 48, 55, 52, 48, 48, 46,
    51, 54, 48, 44, 87, 44, 53, 46, 48, 44, 57, 48, 46, 48, 44, 48, 53, 48,
    53, 50, 53, 44, 44, 44, 65>>

\* GPRMC,123457.00,V,4042.768,N,07400.360,W,12.5,270.0,050525,,,N   (XOR 0x6B)
RmcVoidBody ==
    <<71, 80, 82, 77, 67, 44, 49, 50, 51, 52, 53, 55, 46, 48, 48, 44, 86,
    44, 52, 48, 52, 50, 46, 55, 54, 56, 44, 78, 44, 48, 55, 52, 48, 48, 46,
    51, 54, 48, 44, 87, 44, 49, 50, 46, 53, 44, 50, 55, 48, 46, 48, 44, 48,
    53, 48, 53, 50, 53, 44, 44, 44, 78>>

\* GPGGA,123456.00,4042.768,N,07400.360,W,1,08,0.9,10.5,M,,M,,   (XOR 0x5F)
GgaBody ==
    <<71, 80, 71, 71, 65, 44, 49, 50, 51, 52, 53, 54, 46, 48, 48, 44, 52,
    48, 52, 50, 46, 55, 54, 56, 44, 78, 44, 48, 55, 52, 48, 48, 46, 51, 54,
    48, 44, 87, 44, 49, 44, 48, 56, 44, 48, 46, 57, 44, 49, 48, 46, 53, 44,
    77, 44, 44, 77, 44, 44>>

\* GPRMC,123456.00,A,4042.768,N,07400.360,W,7.5,45.0,050525,00000000000000000,,A   (XOR 0x42; 81 bytes with $ and *hh)
Rmc81Body ==
    <<71, 80, 82, 77, 67, 44, 49, 50, 51, 52, 53, 54, 46, 48, 48, 44, 65,
    44, 52, 48, 52, 50, 46, 55, 54, 56, 44, 78, 44, 48, 55, 52, 48, 48, 46,
    51, 54, 48, 44, 87, 44, 55, 46, 53, 44, 52, 53, 46, 48, 44, 48, 53, 48,
    53, 50, 53, 44, 48, 48, 48, 48, 48, 48, 48, 48, 48, 48, 48, 48, 48, 48,
    48, 48, 48, 44, 44, 65>>

\* "GPRMC,123456.00,A,4042.768,N,07400.360,W,5.0,90.0,050525,": an RMC sentence with 11 fields; its bytes XOR to 0x3C
Rmc11Body ==
    <<71, 80, 82, 77, 67, 44, 49, 50, 51, 52, 53, 54, 46, 48, 48, 44, 65, 44, 
    52, 48, 52, 50, 46, 55, 54, 56, 44, 78, 44, 48, 55, 52, 48, 48, 46, 51, 
    54, 48, 44, 87, 44, 53, 46, 48, 44, 57, 48, 46, 48, 44, 48, 53, 48, 53, 
    50, 53, 44>>

\* "GPRMC,123456.00,A,4042.768,N,07400.360,W,3.0,10.0,050525,,": an RMC sentence with 12 fields; its bytes XOR to 0x1E
Rmc12Body ==
    <<71, 80, 82, 77, 67, 44, 49, 50, 51, 52, 53, 54, 46, 48, 48, 44, 65, 44, 
    52, 48, 52, 50, 46, 55, 54, 56, 44, 78, 44, 48, 55, 52, 48, 48, 46, 51, 
    54, 48, 44, 87, 44, 51, 46, 48, 44, 49, 48, 46, 48, 44, 48, 53, 48, 53, 
    50, 53, 44, 44>>

\* "GPGGA,123456.00,4042.768,N,07400.360,W,1,08,0.9": a GGA sentence with 9 fields; its bytes XOR to 0x45
Gga9Body ==
    <<71, 80, 71, 71, 65, 44, 49, 50, 51, 52, 53, 54, 46, 48, 48, 44, 52, 48, 
    52, 50, 46, 55, 54, 56, 44, 78, 44, 48, 55, 52, 48, 48, 46, 51, 54, 48, 
    44, 87, 44, 49, 44, 48, 56, 44, 48, 46, 57>>

\* "GPGGA,123456.00,4042.768,N,07400.360,W,1,08,0.9,10.5": a GGA sentence with 10 fields; its bytes XOR to 0x73
Gga10Body ==
    <<71, 80, 71, 71, 65, 44, 49, 50, 51, 52, 53, 54, 46, 48, 48, 44, 52, 48, 
    52, 50, 46, 55, 54, 56, 44, 78, 44, 48, 55, 52, 48, 48, 46, 51, 54, 48, 
    44, 87, 44, 49, 44, 48, 56, 44, 48, 46, 57, 44, 49, 48, 46, 53>>

\* "GPGGA,123456.00,4042.768,N,07400.360,W,0,00,0.9,10.5,M,,M,,": a GGA sentence with fix quality 0; its bytes XOR to 0x56
GgaNoFixBody ==
    <<71, 80, 71, 71, 65, 44, 49, 50, 51, 52, 53, 54, 46, 48, 48, 44, 52, 48, 
    52, 50, 46, 55, 54, 56, 44, 78, 44, 48, 55, 52, 48, 48, 46, 51, 54, 48, 
    44, 87, 44, 48, 44, 48, 48, 44, 48, 46, 57, 44, 49, 48, 46, 53, 44, 77, 
    44, 44, 77, 44, 44>>

\* "GPGGA,123456.00,V,N,07400.360,W,0,00,0.9,10.5,M,,M,,": a GGA sentence with fix quality 0 whose field 2 is "V"; its bytes XOR to 0x15
GgaVNoFixBody ==
    <<71, 80, 71, 71, 65, 44, 49, 50, 51, 52, 53, 54, 46, 48, 48, 44, 86, 44, 
    78, 44, 48, 55, 52, 48, 48, 46, 51, 54, 48, 44, 87, 44, 48, 44, 48, 48, 
    44, 48, 46, 57, 44, 49, 48, 46, 53, 44, 77, 44, 44, 77, 44, 44>>

\* "GNRMC,123457.00,V,4042.768,N,07400.360,W,12.5,270.0,050525,,,N": a void RMC sentence with the GN talker; its bytes XOR to 0x75
GnRmcVoidBody ==
    <<71, 78, 82, 77, 67, 44, 49, 50, 51, 52, 53, 55, 46, 48, 48, 44, 86, 44, 
    52, 48, 52, 50, 46, 55, 54, 56, 44, 78, 44, 48, 55, 52, 48, 48, 46, 51, 
    54, 48, 44, 87, 44, 49, 50, 46, 53, 44, 50, 55, 48, 46, 48, 44, 48, 53, 
    48, 53, 50, 53, 44, 44, 44, 78>>

\* "GNGGA,123456.00,4042.768,N,07400.360,W,2,05,0.9,3.5,M,,M,,": a GGA sentence with the GN talker, fix quality 2; its bytes XOR to 0x7D
GnGgaBody ==
    <<71, 78, 71, 71, 65, 44, 49, 50, 51, 52, 53, 54, 46, 48, 48, 44, 52, 48, 
    52, 50, 46, 55, 54, 56, 44, 78, 44, 48, 55, 52, 48, 48, 46, 51, 54, 48, 
    44, 87, 44, 50, 44, 48, 53, 44, 48, 46, 57, 44, 51, 46, 53, 44, 77, 44, 
    44, 77, 44, 44>>

\* "GPVTG,90.0,T,,M,5.0,N,9.3,K,A": a VTG sentence; its bytes XOR to 0x3B
VtgBody ==
    <<71, 80, 86, 84, 71, 44, 57, 48, 46, 48, 44, 84, 44, 44, 77, 44, 53, 46, 
    48, 44, 78, 44, 57, 46, 51, 44, 75, 44, 65>>

\* "GPRMCX,123456.00,A,4042.768,N,07400.360,W,5.0,90.0,050525,,,A": the RMC sentence under the tag GPRMCX; its bytes XOR to 0x25
RmcxBody ==
    <<71, 80, 82, 77, 67, 88, 44, 49, 50, 51, 52, 53, 54, 46, 48, 48, 44, 65, 
    44, 52, 48, 52, 50, 46, 55, 54, 56, 44, 78, 44, 48, 55, 52, 48, 48, 46, 
    51, 54, 48, 44, 87, 44, 53, 46, 48, 44, 57, 48, 46, 48, 44, 48, 53, 48, 
    53, 50, 53, 44, 44, 44, 65>>

\* Checksum fields other than two upper-case hex digits that strtol still
\* reads as 0x7D: "0x7D", " 7D", "+7D", "7d"
ChecksumTexts ==
    <<<<48, 120, 55, 68>>, <<32, 55, 68>>, <<43, 55, 68>>, <<55, 100>>>>

CRLF == <<13, 10>>

\* '$' body '*' hi lo
Sentence(body, hi, lo) == <<36>> \o body \o <<42, hi, lo>>

\* n copies of byte c
Fill(c, n) == [i \in 1..n |-> c]

Tape(kind, a, b) == [kind |-> kind, a |-> a, b |-> b]

NoTape == Tape("none", 0, 0)

\* Overflowing bytes tried against a full accumulator: LF, CR, 'A'.
OverflowBytes == {10, 13, 65}

GpsTapes ==
    \* the RMC sentence with checksum digits hi lo in {6,7} x {D,E}, CR LF
    {Tape("rmc", hi, lo) : hi \in {54, 55}, lo \in {68, 69}}
    \* the RMC sentence with its checksum 7D and LF only
    \cup {Tape("rmc_lf", 55, 68)}
    \* well-formed void RMC and GGA sentences
    \cup {Tape("rmcv", 54, 66), Tape("gga", 53, 70)}
    \* no '*', a one-digit checksum, and the three-digit checksum 17D
    \cup {Tape("nostar", 0, 0), Tape("short", 55, 0), Tape("rmc3", 49, 0)}
    \* '$' and a - 1 bytes 'X' without terminator (a = 82 fills the accumulator)
    \cup {Tape("over", n, 0) : n \in {82, 83, 100}}
    \* bytes without '$', and a sentence cut short
    \cup {Tape("junk", 0, 0), Tape("partial", 0, 0)}
    \* an 81-byte valid RMC sentence and one more byte fill the accumulator;
    \* then the overflowing byte b
    \cup {Tape("full", 0, ob) : ob \in OverflowBytes}

\* The valid RMC sentence without its line end, and with the CR only.
AbandonedText == Sentence(RmcBody, 55, 68) \o <<13>>

\* Input streams with a '$' after the first byte: "restart" a is the first a
\* bytes of AbandonedText followed by the complete void RMC sentence;
\* "restart_fill" a is '$' and a - 1 bytes 'X' (a = 82 fills the
\* accumulator, a = 83 overflows it) followed by the same sentence.  With
\* them a sentence cut short, bytes without '$', complete sentences and an
\* unterminated input that fills the accumulator.
RestartTapes ==
    {Tape("restart", k, 0) : k \in {1, 12, Len(AbandonedText) - 1, Len(AbandonedText)}}
    \cup {Tape("restart_fill", n, 0) : n \in {82, 83}}
    \cup {Tape("partial", 0, 0), Tape("junk", 0, 0), Tape("rmc", 55, 68),
          Tape("gga", 53, 70), Tape("over", 82, 0)}

\* The input streams for the dispatch of complete sentences.
DispatchTapes ==
    \* the well-formed valid RMC, void RMC and GGA sentences
    {Tape("rmc", 55, 68), Tape("rmcv", 54, 66), Tape("gga", 53, 70)}
    \* RMC and GGA sentences around the minimum field counts (valid checksums,
    \* and the 11-field RMC with a wrong one), GGA without fix, GN talker,
    \* other tags
    \cup {Tape("rmc11", 51, 67), Tape("rmc12", 49, 69), Tape("gga9", 52, 53),
          Tape("gga10", 55, 51), Tape("gga0", 53, 54), Tape("ggav0", 49, 53),
          Tape("gnrmc", 55, 53), Tape("gngga", 55, 68), Tape("gpvtg", 51, 66),
          Tape("rmcx", 50, 53), Tape("rmc11", 51, 68)}
    \* the RMC sentence with each of ChecksumTexts as its checksum field
    \cup {Tape("rmc_ck", i, 0) : i \in 1..4}

TapeBytes(t) ==
    CASE t.kind = "none" -> <<>>
      [] t.kind = "rmc" -> Sentence(RmcBody, t.a, t.b) \o CRLF
      [] t.kind = "rmc_lf" -> Sentence(RmcBody, t.a, t.b) \o <<10>>
      [] t.kind = "rmcv" -> Sentence(RmcVoidBody, t.a, t.b) \o CRLF
      [] t.kind = "gga" -> Sentence(GgaBody, t.a, t.b) \o CRLF
      [] t.kind = "nostar" -> <<36>> \o RmcBody \o CRLF
      [] t.kind = "short" -> <<36>> \o RmcBody \o <<42, t.a>> \o CRLF
      [] t.kind = "rmc3" -> <<36>> \o RmcBody \o <<42, t.a, 55, 68>> \o CRLF
      [] t.kind = "over" -> <<36>> \o Fill(88, t.a - 1)
      [] t.kind = "junk" -> <<65, 66, 13, 10, 42, 55, 68, 10>>
      [] t.kind = "partial" -> <<36, 71, 80, 82, 77, 67, 44, 49, 50, 51, 52>>
      [] t.kind = "full" -> Sentence(Rmc81Body, 52, 50) \o <<88, t.b>>
      [] t.kind = "restart" ->
             SubSeq(AbandonedText, 1, t.a) \o Sentence(RmcVoidBody, 54, 66) \o CRLF
      [] t.kind = "restart_fill" ->
             <<36>> \o Fill(88, t.a - 1) \o Sentence(RmcVoidBody, 54, 66) \o CRLF
      [] t.kind = "rmc11" -> Sentence(Rmc11Body, t.a, t.b) \o CRLF
      [] t.kind = "rmc12" -> Sentence(Rmc12Body, t.a, t.b) \o CRLF
      [] t.kind = "gga9" -> Sentence(Gga9Body, t.a, t.b) \o CRLF
      [] t.kind = "gga10" -> Sentence(Gga10Body, t.a, t.b) \o CRLF
      [] t.kind = "gga0" -> Sentence(GgaNoFixBody, t.a, t.b) \o CRLF
      [] t.kind = "ggav0" -> Sentence(GgaVNoFixBody, t.a, t.b) \o CRLF
      [] t.kind = "gnrmc" -> Sentence(GnRmcVoidBody, t.a, t.b) \o CRLF
      [] t.kind = "gngga" -> Sentence(GnGgaBody, t.a, t.b) \o CRLF
      [] t.kind = "gpvtg" -> Sentence(VtgBody, t.a, t.b) \o CRLF
      [] t.kind = "rmcx" -> Sentence(RmcxBody, t.a, t.b) \o CRLF
      [] t.kind = "rmc_ck" -> <<36>> \o RmcBody \o <<42>> \o ChecksumTexts[t.a] \o CRLF

\* The bytes of every stream, computed once.
GpsTapeTable ==
    [t \in GpsTapes \cup DispatchTapes \cup RestartTapes \cup {NoTape} |-> TapeBytes(t)]

(***************************************************************************)
(* drivers/ble_rx.c (display node)                                         *)
(***************************************************************************)
BLE_RX_BUFFER_LEN == 128
BLE_MSG_TERMINATOR == 10

\* "Connecting..."
ConnectingText == <<67, 111, 110, 110, 101, 99, 116, 105, 110, 103, 46, 46, 46>>

\* The statics of ble_rx.c at program start.  instruction is the C string
\* held by the 64-byte array (the bytes behind it are NUL).
BleStatics ==
    [current_status_data |->
        [battery_mv |-> 0, signal_status |-> 0, speed_kmh |-> 0, updated |-> FALSE],
     current_nav_data |-> [instruction |-> <<>>, distance_m |-> 0, updated |-> FALSE],
     is_connected |-> FALSE,
     rx_buffer |-> [i \in 0..(BLE_RX_BUFFER_LEN - 1) |-> 0],
     rx_buffer_idx |-> 0]

ble_rx_init(b) ==
    [b EXCEPT !.current_status_data =
                  [battery_mv |-> 0, signal_status |-> 0, speed_kmh |-> 0,
                   updated |-> FALSE],
              !.current_nav_data =
                  [instruction |-> ConnectingText, distance_m |-> 0,
                   updated |-> FALSE],
              !.rx_buffer_idx = 0,
              !.is_connected = FALSE]

\* sscanf's %u at position i of s: white space, an optional sign, decimal
\* digits.  [ok, val, next]
ScanUnsigned(s, i) ==
    LET i0 == SkipSpace(s, i)
        neg == i0 <= Len(s) /\ s[i0] = 45
        i1 == IF i0 <= Len(s) /\ s[i0] \in {43, 45} THEN i0 + 1 ELSE i0
        d == ScanDigits(s, i1, 10, 0, FALSE)
    IN  [ok |-> d.any,
         val |-> IF neg THEN (65536 - (d.val % 65536)) % 65536 ELSE d.val,
         next |-> d.next]

\* sscanf's %63[^,] at position i of s: the longest run of up to 63 bytes
\* other than ','; fails on an empty run.  [ok, text, next]
ScanSet63(s, i) ==
    LET commas == {j \in i..Len(s) : s[j] = 44}
        stop == Min(IF commas = {} THEN Len(s) + 1 ELSE MinOf(commas), i + 63)
    IN  [ok |-> stop > i, text |-> SubSeq(s, i, stop - 1), next |-> stop]

\* sscanf(s, "%63[^,],%u", instruction_buf, &distance): [count, text, distance]
sscanf_nav(s) ==
    LET t == ScanSet63(s, 1)
        comma == t.ok /\ t.next <= Len(s) /\ s[t.next] = 44
        u == ScanUnsigned(s, t.next + 1)
    IN  IF ~t.ok THEN [count |-> 0, text |-> <<>>, distance |-> 0]
        ELSE IF ~comma \/ ~u.ok THEN [count |-> 1, text |-> t.text, distance |-> 0]
        ELSE [count |-> 2, text |-> t.text, distance |-> u.val]

\* sscanf(s, "%u,%u,%u", &batt, &signals, &speed): [count, batt, signals, speed]
sscanf_status(s) ==
    LET u1 == ScanUnsigned(s, 1)
        c1 == u1.ok /\ u1.next <= Len(s) /\ s[u1.next] = 44
        u2 == ScanUnsigned(s, u1.next + 1)
        c2 == c1 /\ u2.ok /\ u2.next <= Len(s) /\ s[u2.next] = 44
        u3 == ScanUnsigned(s, u2.next + 1)
    IN  IF ~u1.ok THEN [count |-> 0, batt |-> 0, signals |-> 0, speed |-> 0]
        ELSE IF ~c1 \/ ~u2.ok
             THEN [count |-> 1, batt |-> u1.val, signals |-> 0, speed |-> 0]
        ELSE IF ~c2 \/ ~u3.ok
             THEN [count |-> 2, batt |-> u1.val, signals |-> u2.val, speed |-> 0]
        ELSE [count |-> 3, batt |-> u1.val, signals |-> u2.val, speed |-> u3.val]

\* "NAV:" and "STATUS:"
NavPrefix == <<78, 65, 86, 58>>
StatusPrefix == <<83, 84, 65, 84, 85, 83, 58>>

\* Mutant: a STATUS line is accepted from two fields on.
parse_ble_message_TwoFieldsEnough(b, message) ==
    IF strncmp_eq(message, StatusPrefix, 7)
    THEN LET r == sscanf_status(SubSeq(message, 8, Len(message)))
         IN  IF r.count >= 2
             THEN [b EXCEPT !.current_status_data =
                                [battery_mv |-> r.batt % 65536,
                                 signal_status |-> r.signals % 256,
                                 speed_kmh |-> r.speed % 256,
                                 updated |-> TRUE],
                            !.is_connected = TRUE]
             ELSE b
    ELSE b

\* Mutant: the NAV prefix is matched on its first three characters.
parse_ble_message_ThreeCharPrefix(b, message) ==
    IF strncmp_eq(message, NavPrefix, 3)
    THEN LET r == sscanf_nav(SubSeq(message, 5, Len(message)))
         IN  IF r.count = 2
             THEN [b EXCEPT !.current_nav_data =
                                [instruction |-> SubSeq(r.text, 1, Min(Len(r.text), 63)),
                                 distance_m |-> r.distance % 65536,
                                 updated |-> TRUE],
                            !.is_connected = TRUE]
             ELSE b
    ELSE b

\* Mutant: a NAV line does not replace a nav record that was not retrieved.
parse_ble_message_KeepsUnread(b, message) ==
    IF strncmp_eq(message, NavPrefix, 4)
    THEN LET r == sscanf_nav(SubSeq(message, 5, Len(message)))
         IN  IF r.count = 2 /\ ~b.current_nav_data.updated
             THEN [b EXCEPT !.current_nav_data =
                                [instruction |-> SubSeq(r.text, 1, Min(Len(r.text), 63)),
                                 distance_m |-> r.distance % 65536,
                                 updated |-> TRUE],
                            !.is_connected = TRUE]
             ELSE b
    ELSE b

\* Mutant: a line that is not parsed successfully clears the connected flag.
parse_ble_message_RejectDisconnects(b, message) ==
    IF strncmp_eq(message, NavPrefix, 4)
    THEN LET r == sscanf_nav(SubSeq(message, 5, Len(message)))
         IN  IF r.count = 2
             THEN [b EXCEPT !.current_nav_data =
                                [instruction |-> SubSeq(r.text, 1, Min(Len(r.text), 63)),
                                 distance_m |-> r.distance % 65536,
                                 updated |-> TRUE],
                            !.is_connected = TRUE]
             ELSE [b EXCEPT !.is_connected = FALSE]
    ELSE IF strncmp_eq(message, StatusPrefix, 7)
    THEN LET r == sscanf_status(SubSeq(message, 8, Len(message)))
         IN  IF r.count = 3
             THEN [b EXCEPT !.current_status_data =
                                [battery_mv |-> r.batt % 65536,
                                 signal_status |-> r.signals % 256,
                                 speed_kmh |-> r.speed % 256,
                                 updated |-> TRUE],
                            !.is_connected = TRUE]
             ELSE [b EXCEPT !.is_connected = FALSE]
    ELSE [b EXCEPT !.is_connected = FALSE]

\* Mutant: a value too large for its field is stored as the field's largest
\* value.
parse_ble_message_Saturates(b, message) ==
    IF strncmp_eq(message, NavPrefix, 4)
    THEN LET r == sscanf_nav(SubSeq(message, 5, Len(message)))
         IN  IF r.count = 2
             THEN [b EXCEPT !.current_nav_data =
                                [instruction |-> SubSeq(r.text, 1, Min(Len(r.text), 63)),
                                 distance_m |-> Min(r.distance, 65535),
                                 updated |-> TRUE],
                            !.is_connected = TRUE]
             ELSE b
    ELSE IF strncmp_eq(message, StatusPrefix, 7)
    THEN LET r == sscanf_status(SubSeq(message, 8, Len(message)))
         IN  IF r.count = 3
             THEN [b EXCEPT !.current_status_data =
                                [battery_mv |-> Min(r.batt, 65535),
                                 signal_status |-> Min(r.signals, 255),
                                 speed_kmh |-> Min(r.speed, 255),
                                 updated |-> TRUE],
                            !.is_connected = TRUE]
             ELSE b
    ELSE b

parse_ble_message(b, message) ==
    IF strncmp_eq(message, NavPrefix, 4)
    THEN LET r == sscanf_nav(SubSeq(message, 5, Len(message)))
         IN  IF r.count = 2
             THEN [b EXCEPT !.current_nav_data =
                                [instruction |-> SubSeq(r.text, 1, Min(Len(r.text), 63)),
                                 distance_m |-> r.distance % 65536,
                                 updated |-> TRUE],
                            !.is_connected = TRUE]
             ELSE b
    ELSE IF strncmp_eq(message, StatusPrefix, 7)
    THEN LET r == sscanf_status(SubSeq(message, 8, Len(message)))
         IN  IF r.count = 3
             THEN [b EXCEPT !.current_status_data =
                                [battery_mv |-> r.batt % 65536,
                                 signal_status |-> r.signals % 256,
                                 speed_kmh |-> r.speed % 256,
                                 updated |-> TRUE],
                            !.is_connected = TRUE]
             ELSE b
    ELSE b

\* Mutant: the byte that overflows the accumulator starts the next line.
ble_rx_process_char_StoresOverflow(b, received_char) ==
    IF received_char = BLE_MSG_TERMINATOR
    THEN LET b1 == IF b.rx_buffer_idx > 0
                   THEN LET b0 == [b EXCEPT !.rx_buffer[b.rx_buffer_idx] = 0]
                        IN  parse_ble_message(b0,
                                CStrAt(b0.rx_buffer, 0, BLE_RX_BUFFER_LEN - 1))
                   ELSE b
         IN  [b1 EXCEPT !.rx_buffer_idx = 0]
    ELSE IF b.rx_buffer_idx < BLE_RX_BUFFER_LEN - 1
    THEN IF received_char >= 32 /\ received_char <= 126
         THEN [b EXCEPT !.rx_buffer[b.rx_buffer_idx] = received_char,
                        !.rx_buffer_idx = b.rx_buffer_idx + 1]
         ELSE b
    ELSE [b EXCEPT !.rx_buffer[0] = received_char, !.rx_buffer_idx = 1]

\* Mutant: the terminator empties the accumulator only after a line that
\* updated a record.
ble_rx_process_char_KeepsRejectedLine(b, received_char) ==
    IF received_char = BLE_MSG_TERMINATOR
    THEN IF b.rx_buffer_idx > 0
         THEN LET b0 == [b EXCEPT !.rx_buffer[b.rx_buffer_idx] = 0]
                  b1 == parse_ble_message(b0,
                            CStrAt(b0.rx_buffer, 0, BLE_RX_BUFFER_LEN - 1))
              IN  IF b1 = b0 THEN b0 ELSE [b1 EXCEPT !.rx_buffer_idx = 0]
         ELSE b
    ELSE IF b.rx_buffer_idx < BLE_RX_BUFFER_LEN - 1
    THEN IF received_char >= 32 /\ received_char <= 126
         THEN [b EXCEPT !.rx_buffer[b.rx_buffer_idx] = received_char,
                        !.rx_buffer_idx = b.rx_buffer_idx + 1]
         ELSE b
    ELSE [b EXCEPT !.rx_buffer_idx = 0]

\* One received byte.  The terminator closes the line; a printable byte is
\* stored while there is room; a byte arriving when the buffer is full
\* restarts the accumulation at index 0 and is itself not stored.
ble_rx_process_char(b, received_char) ==
    IF received_char = BLE_MSG_TERMINATOR
    THEN LET b1 == IF b.rx_buffer_idx > 0
                   THEN LET b0 == [b EXCEPT !.rx_buffer[b.rx_buffer_idx] = 0]
                        IN  parse_ble_message(b0,
                                CStrAt(b0.rx_buffer, 0, BLE_RX_BUFFER_LEN - 1))
                   ELSE b
         IN  [b1 EXCEPT !.rx_buffer_idx = 0]
    ELSE IF b.rx_buffer_idx < BLE_RX_BUFFER_LEN - 1
    THEN IF received_char >= 32 /\ received_char <= 126
         THEN [b EXCEPT !.rx_buffer[b.rx_buffer_idx] = received_char,
                        !.rx_buffer_idx = b.rx_buffer_idx + 1]
         ELSE b
    ELSE [b EXCEPT !.rx_buffer_idx = 0]

ble_rx_is_status_available(b) == b.current_status_data.updated

ble_rx_is_nav_available(b) == b.current_nav_data.updated

ble_rx_is_connected(b) == b.is_connected

\* [ble, ret, data]
ble_rx_get_status_data(b, dataPresent) ==
    IF ~dataPresent \/ ~b.current_status_data.updated
    THEN [ble |-> b, ret |-> FALSE, data |-> <<>>]
    ELSE [ble |-> [b EXCEPT !.current_status_data.updated = FALSE],
          ret |-> TRUE,
          data |-> <<b.current_status_data>>]

\* Mutant: retrieval leaves the nav record marked updated.
ble_rx_get_nav_data_KeepsFlag(b, dataPresent) ==
    IF ~dataPresent \/ ~b.current_nav_data.updated
    THEN [ble |-> b, ret |-> FALSE, data |-> <<>>]
    ELSE [ble |-> b, ret |-> TRUE, data |-> <<b.current_nav_data>>]

\* [ble, ret, data]
ble_rx_get_nav_data(b, dataPresent) ==
    IF ~dataPresent \/ ~b.current_nav_data.updated
    THEN [ble |-> b, ret |-> FALSE, data |-> <<>>]
    ELSE [ble |-> [b EXCEPT !.current_nav_data.updated = FALSE],
          ret |-> TRUE,
          data |-> <<b.current_nav_data>>]

(***************************************************************************)
(* drivers/ble_uart.c (brain node): the telemetry senders.                 *)
(***************************************************************************)
BLE_CMD_BUFFER_SIZE == 128

\* "NULL"
NullText == <<78, 85, 76, 76>>

\* printf's %u: the decimal digits of n, no sign, no leading zero.
RECURSIVE FormatUnsigned(_)
FormatUnsigned(n) ==
    IF n < 10 THEN <<48 + n>> ELSE FormatUnsigned(n \div 10) \o <<48 + (n % 10)>>

\* The bytes handed to hal_uart_write, which puts them on the wire one by
\* one.  [ret, wire]
send_packet(packet) ==
    IF Len(packet) = 0
    THEN [ret |-> FALSE, wire |-> <<>>]
    ELSE [ret |-> TRUE, wire |-> packet]

\* Mutant: the distance is formatted before the instruction.
ble_uart_send_nav_update_DistanceFirst(instructionPresent, instruction, distance) ==
    LET text == NavPrefix \o FormatUnsigned(distance % 65536) \o <<44>>
                \o (IF instructionPresent THEN instruction ELSE NullText) \o <<10>>
        len == Len(text)
    IN  IF len > 0 /\ len < BLE_CMD_BUFFER_SIZE
        THEN send_packet(text)
        ELSE [ret |-> FALSE, wire |-> <<>>]

\* snprintf(buffer, 128, "NAV:%s,%u\n", instruction ? instruction : "NULL",
\* distance) returns the length of the whole text, truncated or not.
ble_uart_send_nav_update(instructionPresent, instruction, distance) ==
    LET text == NavPrefix \o (IF instructionPresent THEN instruction ELSE NullText)
                \o <<44>> \o FormatUnsigned(distance % 65536) \o <<10>>
        len == Len(text)
    IN  IF len > 0 /\ len < BLE_CMD_BUFFER_SIZE
        THEN send_packet(text)
        ELSE [ret |-> FALSE, wire |-> <<>>]

\* snprintf(buffer, 128, "STATUS:%u,%u,%u\n", battery_voltage_mv,
\* signal_status, speed_kmh)
ble_uart_send_status_update(battery_voltage_mv, signal_status, speed_kmh) ==
    LET text == StatusPrefix \o FormatUnsigned(battery_voltage_mv % 65536) \o <<44>>
                \o FormatUnsigned(signal_status % 256) \o <<44>>
                \o FormatUnsigned(speed_kmh % 256) \o <<10>>
        len == Len(text)
    IN  IF len > 0 /\ len < BLE_CMD_BUFFER_SIZE
        THEN send_packet(text)
        ELSE [ret |-> FALSE, wire |-> <<>>]

(***************************************************************************)
(* Input streams for the telemetry framer.                                 *)
(***************************************************************************)
\* "NAV:Turn left,120" LF
NavTurnLeft == <<78, 65, 86, 58, 84, 117, 114, 110, 32, 108, 101, 102, 116, 44, 49, 50, 48, 10>>

\* "Turn left"
TurnLeftText == <<84, 117, 114, 110, 32, 108, 101, 102, 116>>

\* "NAV:Go straight,65535" LF
NavGoStraight == <<78, 65, 86, 58, 71, 111, 32, 115, 116, 114, 97, 105, 103, 104, 116, 44, 54, 53, 53, 51, 53, 10>>

\* "STATUS:3700,2,45" LF
StatusFull == <<83, 84, 65, 84, 85, 83, 58, 51, 55, 48, 48, 44, 50, 44, 52, 53, 10>>

\* "STATUS:100,2" LF
StatusShort == <<83, 84, 65, 84, 85, 83, 58, 49, 48, 48, 44, 50, 10>>

\* "HELLO" LF
UnknownLine == <<72, 69, 76, 76, 79, 10>>

\* "Go straight"
GoStraightText == <<71, 111, 32, 115, 116, 114, 97, 105, 103, 104, 116>>

\* "NAV:" LF, "NAV:,120" LF, "NAV:Turn left" LF, "NAV:Turn left," LF,
\* "STATUS:" LF, "STATUS:100" LF
MalformedLines ==
    <<<<78, 65, 86, 58, 10>>,
      <<78, 65, 86, 58, 44, 49, 50, 48, 10>>,
      <<78, 65, 86, 58, 84, 117, 114, 110, 32, 108, 101, 102, 116, 10>>,
      <<78, 65, 86, 58, 84, 117, 114, 110, 32, 108, 101, 102, 116, 44, 10>>,
      <<83, 84, 65, 84, 85, 83, 58, 10>>,
      <<83, 84, 65, 84, 85, 83, 58, 49, 48, 48, 10>>>>

\* Lengths of the oversized unterminated input fed before a NAV frame.
OversizeLengths == {127, 128, 129, 130, 256, 257}

BleTapes ==
    {Tape("nav", 0, 0), Tape("nav2", 0, 0), Tape("status", 0, 0),
     Tape("status_short", 0, 0), Tape("unknown", 0, 0)}
    \* "NAV:" a bytes 'B' ",0" LF: the one-byte and the longest instruction
    \cup {Tape("nav_fill", n, 0) : n \in {1, 63}}
    \* lines with a missing field
    \cup {Tape("malformed", i, 0) : i \in 1..Len(MalformedLines)}
    \* a printable bytes 'A' without terminator, then "NAV:Turn left,120" LF
    \cup {Tape("ble_over", n, 0) : n \in OversizeLengths}

\* "STATUS:4100,5,60" LF
StatusSecond == <<83, 84, 65, 84, 85, 83, 58, 52, 49, 48, 48, 44, 53, 44, 54, 48, 10>>

\* "NAV:Turn left,-5" LF
NavSigned == <<78, 65, 86, 58, 84, 117, 114, 110, 32, 108, 101, 102, 116, 44, 45, 53, 10>>

\* "nav:Turn left,120" LF, "NAV;Turn left,120" LF, " NAV:Turn left,120" LF,
\* "STAT:3700,2,45" LF, "NAV" LF
UnknownLines ==
    <<<<110, 97, 118, 58, 84, 117, 114, 110, 32, 108, 101, 102, 116, 44, 49, 50, 48, 10>>,
      <<78, 65, 86, 59, 84, 117, 114, 110, 32, 108, 101, 102, 116, 44, 49, 50, 48, 10>>,
      <<32, 78, 65, 86, 58, 84, 117, 114, 110, 32, 108, 101, 102, 116, 44, 49, 50, 48, 10>>,
      <<83, 84, 65, 84, 58, 51, 55, 48, 48, 44, 50, 44, 52, 53, 10>>,
      <<78, 65, 86, 10>>>>

\* Bytes that are neither the terminator nor printable ASCII: BEL, CR, DEL
\* and a byte with the top bit set.
NonPrintables == {7, 13, 127, 200}

\* Input streams for the line handling of the telemetry framer.
LineTapes ==
    {Tape("nav", 0, 0), Tape("status", 0, 0), Tape("nav_signed", 0, 0)}
    \* two NAV lines, two STATUS lines
    \cup {Tape("nav_twice", 0, 0), Tape("status_twice", 0, 0)}
    \* "NAV:Turn left" LF and "STATUS:100" LF
    \cup {Tape("malformed", 3, 0), Tape("malformed", 6, 0)}
    \* lines that begin with neither "NAV:" nor "STATUS:"
    \cup {Tape("unknown_line", i, 0) : i \in 1..Len(UnknownLines)}
    \* "NAV:Turn left" byte a ",120" LF
    \cup {Tape("ctl_mid", c, 0) : c \in NonPrintables}
    \* 127 bytes 'A', byte a, then "NAV:Turn left,120" LF
    \cup {Tape("full_then", c, 0) : c \in {7, 13, 66}}
    \* a bytes 'A' and LF
    \cup {Tape("fill_lf", n, 0) : n \in {126, 127}}
    \* b times LF after a times CR
    \cup {Tape("blank", 0, 1), Tape("blank", 1, 1), Tape("blank", 0, 2)}

\* Instruction texts handed to ble_uart_send_nav_update: "", "Turn left",
\* " ~" (the lowest and the highest printable byte), 63, 64 and 121 bytes
\* 'B'.
Instructions ==
    <<<<>>, TurnLeftText, <<32, 126>>, Fill(66, 63), Fill(66, 64), Fill(66, 121)>>

Distances == {0, 120, 65535}

\* battery_voltage_mv, signal_status, speed_kmh handed to
\* ble_uart_send_status_update.
StatusValues == <<<<0, 0, 0>>, <<3700, 2, 45>>, <<65535, 255, 255>>>>

\* Frames sent by the brain node: "sent_nav" a b is instruction a (0: a NULL
\* pointer) with distance b, "sent_status" a is the a-th status triple.
SentTapes ==
    {Tape("sent_nav", 2, d) : d \in Distances}
    \cup {Tape("sent_nav", 0, 120), Tape("sent_nav", 1, 120), Tape("sent_nav", 3, 0),
          Tape("sent_nav", 4, 65535), Tape("sent_nav", 5, 0), Tape("sent_nav", 6, 0)}
    \cup {Tape("sent_status", k, 0) : k \in 1..Len(StatusValues)}

\* The frame a "sent_nav" / "sent_status" descriptor stands for: [ret, wire]
SentFrame(t) ==
    IF t.kind = "sent_nav"
    THEN ble_uart_send_nav_update(t.a > 0, IF t.a > 0 THEN Instructions[t.a] ELSE <<>>, t.b)
    ELSE ble_uart_send_status_update(StatusValues[t.a][1], StatusValues[t.a][2],
                                     StatusValues[t.a][3])

\* battery_mv, signal_status, speed_kmh texts of STATUS lines whose values
\* lie at, just above and far above the range of their fields.
StatusNumbers ==
    <<<<70000, 300, 256>>, <<65536, 256, 511>>, <<65535, 255, 255>>,
      <<65537, 257, 1000>>, <<1000000000, 65535, 65536>>, <<0, 0, 0>>>>

\* distances of NAV lines at, just above and far above the range of
\* distance_m.
NavNumbers == <<65535, 65536, 70000, 131071, 1000000000>>

\* Input streams with numeric fields beyond the field widths: "status_num" a
\* is "STATUS:" and the a-th triple of StatusNumbers, "nav_num" a is
\* "NAV:Turn left," and the a-th of NavNumbers.
WrapTapes ==
    {Tape("status_num", i, 0) : i \in 1..Len(StatusNumbers)}
    \cup {Tape("nav_num", i, 0) : i \in 1..Len(NavNumbers)}

BleTapeBytes(t) ==
    CASE t.kind = "none" -> <<>>
      [] t.kind = "nav" -> NavTurnLeft
      [] t.kind = "nav2" -> NavGoStraight
      [] t.kind = "status" -> StatusFull
      [] t.kind = "status_short" -> StatusShort
      [] t.kind = "unknown" -> UnknownLine
      [] t.kind = "nav_fill" -> NavPrefix \o Fill(66, t.a) \o <<44, 48, 10>>
      [] t.kind = "malformed" -> MalformedLines[t.a]
      [] t.kind = "ble_over" -> Fill(65, t.a) \o NavTurnLeft
      [] t.kind = "nav_twice" -> NavTurnLeft \o NavGoStraight
      [] t.kind = "status_twice" -> StatusFull \o StatusSecond
      [] t.kind = "nav_signed" -> NavSigned
      [] t.kind = "unknown_line" -> UnknownLines[t.a]
      [] t.kind = "ctl_mid" -> NavPrefix \o TurnLeftText \o <<t.a, 44, 49, 50, 48, 10>>
      [] t.kind = "full_then" -> Fill(65, BLE_RX_BUFFER_LEN - 1) \o <<t.a>> \o NavTurnLeft
      [] t.kind = "fill_lf" -> Fill(65, t.a) \o <<10>>
      [] t.kind = "blank" -> Fill(13, t.a) \o Fill(10, t.b)
      [] t.kind \in {"sent_nav", "sent_status"} -> SentFrame(t).wire
      [] t.kind = "status_num" ->
             StatusPrefix \o FormatUnsigned(StatusNumbers[t.a][1]) \o <<44>>
                 \o FormatUnsigned(StatusNumbers[t.a][2]) \o <<44>>
                 \o FormatUnsigned(StatusNumbers[t.a][3]) \o <<10>>
      [] t.kind = "nav_num" ->
             NavPrefix \o TurnLeftText \o <<44>> \o FormatUnsigned(NavNumbers[t.a]) \o <<10>>

BleTapeTable ==
    [t \in BleTapes \cup LineTapes \cup SentTapes \cup WrapTapes \cup {NoTape} |->
        BleTapeBytes(t)]

(***************************************************************************)
(* drivers/ble_uart.c, receive side (brain node): lines from the BLE       *)
(* module are accumulated in ble_rx_buffer and searched for "CONNECT" and  *)
(* "DISCONNECT".                                                           *)
(***************************************************************************)
\* ble_rx_buffer is held as the elements 0..k-1 of the static array up to the
\* highest index written so far (a sequence of length k <= BLE_CMD_BUFFER_SIZE);
\* the elements from k on are the zeros of static storage.
BleUartStatics ==
    [ble_connected |-> FALSE,
     ble_rx_buffer |-> <<>>,
     ble_rx_idx |-> 0]

\* ble_rx_buffer[i]
ble_rx_buffer_get(b, i) == IF i < Len(b) THEN b[i + 1] ELSE 0

\* ble_rx_buffer[i] = c
ble_rx_buffer_set(b, i, c) ==
    [k \in 1..(IF Len(b) > i THEN Len(b) ELSE i + 1) |->
        IF k = i + 1 THEN c ELSE ble_rx_buffer_get(b, k - 1)]

ble_uart_init(u) == [u EXCEPT !.ble_connected = FALSE]

\* "CONNECT", "DISCONNECT"
ConnectText == <<67, 79, 78, 78, 69, 67, 84>>

DisconnectText == <<68, 73, 83>> \o ConnectText

\* strstr(haystack, needle) != NULL
strstr(haystack, needle) ==
    \E i \in 1..(Len(haystack) - Len(needle) + 1) :
        SubSeq(haystack, i, i + Len(needle) - 1) = needle

ble_uart_process_char(u, received_char) ==
    IF received_char = 10
    THEN LET idx == u.ble_rx_idx
             b1 == ble_rx_buffer_set(u.ble_rx_buffer, idx, 0)
             b2 == IF idx > 0 /\ ble_rx_buffer_get(b1, idx - 1) = 13
                   THEN ble_rx_buffer_set(b1, idx - 1, 0)
                   ELSE b1
             line == CStrOf(b2, 0)
         IN  [ble_rx_buffer |-> b2,
              ble_rx_idx |-> 0,
              ble_connected |->
                  IF strstr(line, ConnectText) THEN TRUE
                  ELSE IF strstr(line, DisconnectText) THEN FALSE
                  ELSE u.ble_connected]
    ELSE IF u.ble_rx_idx < BLE_CMD_BUFFER_SIZE - 1
    THEN [u EXCEPT !.ble_rx_buffer =
                       ble_rx_buffer_set(u.ble_rx_buffer, u.ble_rx_idx, received_char),
                   !.ble_rx_idx = u.ble_rx_idx + 1]
    ELSE [u EXCEPT !.ble_rx_idx = 0]

ble_uart_is_connected(u) == u.ble_connected

(***************************************************************************)
(* modules/signal_detector.c: the statics before signal_detector_init.     *)
(* time_ms is the static of get_current_time_ms.                           *)
(***************************************************************************)
SignalStatics ==
    [current_signal_state |-> "OFF",
     left_signal_raw_state |-> FALSE,
     left_signal_debounced_state |-> FALSE,
     left_signal_last_change_time_ms |-> 0,
     right_signal_raw_state |-> FALSE,
     right_signal_debounced_state |-> FALSE,
     right_signal_last_change_time_ms |-> 0,
     time_ms |-> 0]

\* The framers after gps_init and ble_rx_init, with no input stream started;
\* the brain node's BLE receive side after ble_uart_init and the signal
\* detector before signal_detector_init.
GpsInit ==
    /\ gps = gps_init(GpsStatics)
    /\ ble = ble_rx_init(BleStatics)
    /\ tape = NoTape
    /\ pos = 0
    /\ nTapes = 0
    /\ ble_uart = ble_uart_init(BleUartStatics)
    /\ sig = SignalStatics
    /\ readings = <<>>

(***************************************************************************)
(* Spec: one ring buffer of capacity 1..MaxCap driven by any sequence of   *)
(* calls from a single context.                                            *)
(***************************************************************************)
NoCall == [op |-> "init", ret |-> TRUE, wasFull |-> FALSE, wasEmpty |-> TRUE,
           out |-> <<>>]

Call(op, ret, out) ==
    [op |-> op, ret |-> ret, wasFull |-> ring_buffer_is_full(rb),
     wasEmpty |-> ring_buffer_is_empty(rb), out |-> out]

SpscIdle ==
    /\ c_pc = "idle"
    /\ c_reg = 0
    /\ c_data = 0

Init ==
    /\ \E n \in 1..MaxCap :
          rb = ring_buffer_init(RbZero, TRUE, [i \in 0..(n - 1) |-> 0], n)
    /\ accepted = <<>>
    /\ delivered = <<>>
    /\ last = NoCall
    /\ SpscIdle
    /\ GpsInit

Write ==
    \E d \in Bytes :
        LET w == ring_buffer_write(rb, d)
        IN  /\ Len(accepted) < MaxAccepted
            /\ rb' = w.rb
            /\ accepted' = IF w.ret THEN Append(accepted, d) ELSE accepted
            /\ last' = Call("write", w.ret, <<>>)
            /\ UNCHANGED <<delivered, spscVars, framerVars, moduleVars>>

Read ==
    \E p \in BOOLEAN :
        LET x == ring_buffer_read(rb, p)
        IN  /\ rb' = x.rb
            /\ delivered' = IF x.ret THEN Append(delivered, x.data) ELSE delivered
            /\ last' = Call("read", x.ret, IF x.ret THEN <<x.data>> ELSE <<>>)
            /\ UNCHANGED <<accepted, spscVars, framerVars, moduleVars>>

Peek ==
    \E p \in BOOLEAN, off \in 0..MaxCap :
        LET x == ring_buffer_peek(rb, p, off)
        IN  /\ last' = Call("peek", x.ret, IF x.ret THEN <<off, x.data>> ELSE <<off>>)
            /\ UNCHANGED <<rbVars, spscVars, framerVars, moduleVars>>

WriteMulti ==
    \E p \in BOOLEAN, data \in SeqsUpTo(Bytes, MaxMulti) :
        LET w == ring_buffer_write_multi(rb, p, data)
        IN  /\ Len(accepted) + Len(data) <= MaxAccepted
            /\ rb' = w.rb
            /\ accepted' = accepted \o SubSeq(data, 1, w.ret)
            /\ last' = Call("write_multi", w.ret, data)
            /\ UNCHANGED <<delivered, spscVars, framerVars, moduleVars>>

ReadMulti ==
    \E p \in BOOLEAN, length \in 0..MaxMulti :
        LET x == ring_buffer_read_multi(rb, p, length)
        IN  /\ rb' = x.rb
            /\ delivered' = delivered \o x.out
            /\ last' = Call("read_multi", x.ret, x.out)
            /\ UNCHANGED <<accepted, spscVars, framerVars, moduleVars>>

\* The bytes still buffered are discarded: they leave the accepted history.
Clear ==
    /\ rb' = ring_buffer_clear(rb)
    /\ accepted' = delivered
    /\ last' = Call("clear", TRUE, <<>>)
    /\ UNCHANGED <<delivered, spscVars, framerVars, moduleVars>>

Next ==
    \/ Write
    \/ Read
    \/ Peek
    \/ WriteMulti
    \/ ReadMulti
    \/ Clear

Spec == Init /\ [][Next]_vars

(***************************************************************************)
(* SpecInit: a ring_buffer_t in zero-initialised static storage on which   *)
(* ring_buffer_init is called with valid or rejected arguments, between    *)
(* the single-byte calls and ring_buffer_clear (the bulk transfers are     *)
(* driven under Spec).                                                     *)
(***************************************************************************)
InitZeroed ==
    /\ rb = RbZero
    /\ accepted = <<>>
    /\ delivered = <<>>
    /\ last = NoCall
    /\ SpscIdle
    /\ GpsInit

\* ring_buffer_init(&rb, p ? storage : NULL, n).  A call with valid
\* arguments is made once, on the zeroed struct (hal_uart_init); calls with
\* rejected arguments are made at any time.
RbInit ==
    \E p \in BOOLEAN, n \in 0..MaxCap :
        /\ (p /\ n > 0) => rb = RbZero
        /\ rb' = ring_buffer_init(rb, p, [i \in 0..(n - 1) |-> 0], n)
        /\ accepted' = accepted
        /\ last' = Call("rb_init", TRUE, <<IF p THEN 1 ELSE 0, n>>)
        /\ UNCHANGED <<delivered, spscVars, framerVars, moduleVars>>

NextInit ==
    \/ RbInit
    \/ Write
    \/ Read
    \/ Peek
    \/ Clear

SpecInit == InitZeroed /\ [][NextInit]_vars


(***************************************************************************)
(* SpecSPSC: the UART receive path.  The receive interrupt (producer)      *)
(* writes each received byte with ring_buffer_write; the main loop         *)
(* (consumer) takes bytes with hal_uart_get_char, i.e. ring_buffer_read.   *)
(* Nothing masks the interrupt, so it can run, to completion, between any  *)
(* two memory accesses of the consumer; the main loop cannot preempt the   *)
(* interrupt handler.  rb->count-- is a load, a decrement in a register    *)
(* and a store.                                                            *)
(***************************************************************************)
\* ISR(USART_RX_vect): read UDR0, write it to hw_uart0_rx_rb.
IsrRx ==
    \E d \in Bytes :
        LET w == ring_buffer_write(rb, d)
        IN  /\ Len(accepted) < MaxAccepted
            /\ rb' = w.rb
            /\ accepted' = IF w.ret THEN Append(accepted, d) ELSE accepted
            /\ last' = Call("isr_write", w.ret, <<>>)
            /\ UNCHANGED <<delivered, spscVars, framerVars, moduleVars>>

\* hal_uart_get_char -> ring_buffer_read: the ring_buffer_is_empty test.
ConsumerCheck ==
    /\ c_pc = "idle"
    /\ IF ring_buffer_is_empty(rb)
       THEN /\ c_pc' = "idle"
            /\ last' = Call("get_char", FALSE, <<>>)
       ELSE /\ c_pc' = "load"
            /\ last' = Call("get_char_enter", TRUE, <<>>)
    /\ UNCHANGED <<rbVars, c_reg, c_data, framerVars, moduleVars>>

\* *data = rb->buffer[rb->tail]
ConsumerLoad ==
    /\ c_pc = "load"
    /\ c_data' = rb.buffer[rb.tail]
    /\ c_pc' = "tail"
    /\ UNCHANGED <<rbVars, last, c_reg, framerVars, moduleVars>>

\* rb->tail = (rb->tail + 1) % rb->size
ConsumerTail ==
    /\ c_pc = "tail"
    /\ rb' = [rb EXCEPT !.tail = (rb.tail + 1) % rb.size]
    /\ c_pc' = "ldcount"
    /\ UNCHANGED <<accepted, delivered, last, c_reg, c_data, framerVars, moduleVars>>

\* rb->count-- : the load
ConsumerLoadCount ==
    /\ c_pc = "ldcount"
    /\ c_reg' = rb.count
    /\ c_pc' = "stcount"
    /\ UNCHANGED <<rbVars, last, c_data, framerVars, moduleVars>>

\* rb->count-- : the store; return true, and hal_uart_get_char returns data
ConsumerStoreCount ==
    /\ c_pc = "stcount"
    /\ rb' = [rb EXCEPT !.count = c_reg - 1]
    /\ delivered' = Append(delivered, c_data)
    /\ last' = Call("get_char", TRUE, <<c_data>>)
    /\ c_pc' = "idle"
    /\ c_reg' = 0
    /\ c_data' = 0
    /\ UNCHANGED <<accepted, framerVars, moduleVars>>

NextSPSC ==
    \/ IsrRx
    \/ ConsumerCheck
    \/ ConsumerLoad
    \/ ConsumerTail
    \/ ConsumerLoadCount
    \/ ConsumerStoreCount

SpecSPSC == Init /\ [][NextSPSC]_vars

(***************************************************************************)
(* SpecGps: the NMEA framer fed byte by byte with up to MaxTapes input     *)
(* streams, one after the other, while the application polls the record.   *)
(***************************************************************************)
InitGps ==
    /\ rb = ring_buffer_init(RbZero, TRUE, [i \in 0..0 |-> 0], 1)
    /\ accepted = <<>>
    /\ delivered = <<>>
    /\ last = NoCall
    /\ SpscIdle
    /\ GpsInit

\* The environment starts the next input stream.
GpsNextTape ==
    /\ pos = Len(GpsTapeTable[tape])
    /\ nTapes < MaxTapes
    /\ tape' \in GpsTapes
    /\ pos' = 0
    /\ nTapes' = nTapes + 1
    /\ last' = Call("tape", TRUE, <<>>)
    /\ UNCHANGED <<rbVars, spscVars, gps, ble, moduleVars>>

\* The byte the next GpsFeed step hands to gps_process_char.
NextByte == GpsTapeTable[tape][pos + 1]

\* main loop: gps_process_char((uint8_t)data) with the next byte received
GpsFeed ==
    /\ pos < Len(GpsTapeTable[tape])
    /\ gps' = gps_process_char(gps, NextByte)
    /\ pos' = pos + 1
    /\ last' = Call("char", TRUE, <<NextByte>>)
    /\ UNCHANGED <<rbVars, spscVars, ble, tape, nTapes, moduleVars>>

\* application: gps_get_data(&data), or gps_get_data(NULL)
GpsGetData ==
    \E p \in BOOLEAN :
        LET r == gps_get_data(gps, p)
        IN  /\ gps' = r.gps
            /\ last' = Call("get", r.ret, IF p THEN <<1>> ELSE <<0>>)
            /\ UNCHANGED <<rbVars, spscVars, ble, tapeVars, moduleVars>>

\* application: gps_is_data_available(), which only reads data_updated
GpsIsDataAvailable ==
    /\ last' = Call("avail", gps_is_data_available(gps), <<>>)
    /\ UNCHANGED <<rbVars, spscVars, framerVars, moduleVars>>

NextGps ==
    \/ GpsNextTape
    \/ GpsFeed
    \/ GpsGetData
    \/ GpsIsDataAvailable

SpecGps == InitGps /\ [][NextGps]_vars

(***************************************************************************)
(* SpecDispatch: the same framer and application, fed with the streams of  *)
(* DispatchTapes (complete sentences of every kind the dispatcher tells    *)
(* apart).                                                                 *)
(***************************************************************************)
DispatchNextTape ==
    /\ pos = Len(GpsTapeTable[tape])
    /\ nTapes < MaxTapes
    /\ tape' \in DispatchTapes
    /\ pos' = 0
    /\ nTapes' = nTapes + 1
    /\ last' = Call("tape", TRUE, <<>>)
    /\ UNCHANGED <<rbVars, spscVars, gps, ble, moduleVars>>

NextDispatch ==
    \/ DispatchNextTape
    \/ GpsFeed
    \/ GpsGetData
    \/ GpsIsDataAvailable

SpecDispatch == InitGps /\ [][NextDispatch]_vars

(***************************************************************************)
(* SpecBle: the telemetry framer of the display node fed byte by byte with *)
(* up to MaxTapes input streams while the application polls the records.   *)
(***************************************************************************)
BleNextTape ==
    /\ pos = Len(BleTapeTable[tape])
    /\ nTapes < MaxTapes
    /\ tape' \in BleTapes
    /\ pos' = 0
    /\ nTapes' = nTapes + 1
    /\ last' = Call("tape", TRUE, <<>>)
    /\ UNCHANGED <<rbVars, spscVars, gps, ble, moduleVars>>

\* The byte the next BleFeed step hands to ble_rx_process_char.
BleNextByte == BleTapeTable[tape][pos + 1]

\* process_ble_input: ble_rx_process_char((uint8_t)data)
BleFeed ==
    /\ pos < Len(BleTapeTable[tape])
    /\ ble' = ble_rx_process_char(ble, BleNextByte)
    /\ pos' = pos + 1
    /\ last' = Call("char", TRUE, <<BleNextByte>>)
    /\ UNCHANGED <<rbVars, spscVars, gps, tape, nTapes, moduleVars>>

BleGetNav ==
    \E p \in BOOLEAN :
        LET r == ble_rx_get_nav_data(ble, p)
        IN  /\ ble' = r.ble
            /\ last' = Call("get_nav", r.ret, r.data)
            /\ UNCHANGED <<rbVars, spscVars, gps, tapeVars, moduleVars>>

BleGetStatus ==
    \E p \in BOOLEAN :
        LET r == ble_rx_get_status_data(ble, p)
        IN  /\ ble' = r.ble
            /\ last' = Call("get_status", r.ret, r.data)
            /\ UNCHANGED <<rbVars, spscVars, gps, tapeVars, moduleVars>>

NextBle ==
    \/ BleNextTape
    \/ BleFeed
    \/ BleGetNav
    \/ BleGetStatus

SpecBle == InitGps /\ [][NextBle]_vars

(***************************************************************************)
(* SpecLines: the telemetry framer fed with lines that carry non-printable *)
(* bytes, fill the accumulator, are blank, have an unknown prefix or       *)
(* repeat a record, while the application polls the records.               *)
(***************************************************************************)
LinesNextTape ==
    /\ pos = Len(BleTapeTable[tape])
    /\ nTapes < MaxTapes
    /\ tape' \in LineTapes
    /\ pos' = 0
    /\ nTapes' = nTapes + 1
    /\ last' = Call("tape", TRUE, <<>>)
    /\ UNCHANGED <<rbVars, spscVars, gps, ble, moduleVars>>

NextLines ==
    \/ LinesNextTape
    \/ BleFeed
    \/ BleGetNav
    \/ BleGetStatus

SpecLines == InitGps /\ [][NextLines]_vars

(***************************************************************************)
(* SpecRoundTrip: the brain node sends up to MaxTapes telemetry frames;    *)
(* each byte put on the wire is handed to the display node's framer, whose *)
(* application polls the records.                                          *)
(***************************************************************************)
\* ble_uart_send_nav_update / ble_uart_send_status_update once the previous
\* frame has been delivered.
SendFrame ==
    /\ pos = Len(BleTapeTable[tape])
    /\ nTapes < MaxTapes
    /\ \E t \in SentTapes :
          /\ tape' = t
          /\ last' = Call("send", SentFrame(t).ret, <<>>)
    /\ pos' = 0
    /\ nTapes' = nTapes + 1
    /\ UNCHANGED <<rbVars, spscVars, gps, ble, moduleVars>>

NextRoundTrip ==
    \/ SendFrame
    \/ BleFeed
    \/ BleGetNav
    \/ BleGetStatus

SpecRoundTrip == InitGps /\ [][NextRoundTrip]_vars

(***************************************************************************)
(* Ring buffer claims (checked under Spec).                                *)
(***************************************************************************)
\* The bytes a sequence of reads would return, oldest first.
Contents(r) == [i \in 1..r.count |-> r.buffer[(r.tail + i - 1) % r.size]]

\* C1: after any sequence of write, read, write_multi, read_multi and clear
\* calls on a buffer of capacity N >= 1, bytes_available + space_remaining
\* = N, and a write made while the buffer was full did not return true.
C1_CapacityAndNoWriteWhenFull ==
    /\ rb.size \in 1..MaxCap
    /\ ring_buffer_bytes_available(rb) + ring_buffer_space_remaining(rb) = rb.size
    /\ ring_buffer_space_remaining(rb) >= 0
    /\ (last.op = "write" /\ last.wasFull) => last.ret = FALSE

\* C1 witness: a write was attempted on a full buffer after reads and writes.
C1_Witness ==
    /\ last.op = "write"
    /\ last.wasFull
    /\ Len(delivered) > 0
    /\ ring_buffer_bytes_available(rb) = rb.size

\* C2: the bytes returned by successful reads are, in order, a prefix of the
\* bytes accepted by successful writes, and the accepted bytes not yet read
\* are exactly the buffered ones, in order: nothing is lost, duplicated or
\* reordered, also when the cursors wrap.
C2_Fifo ==
    /\ IsPrefix(delivered, accepted)
    /\ accepted = delivered \o Contents(rb)

\* C2 witness: 3*N bytes went through a buffer of capacity N > 1 (the cursors
\* wrapped three times) and the last call was a successful read.
C2_Witness ==
    /\ rb.size > 1
    /\ Len(delivered) >= 3 * rb.size
    /\ delivered = accepted
    /\ last.op = "read"
    /\ last.ret = TRUE

\* C3: with one producer (the receive interrupt) and one consumer (the main
\* loop) and no lock, whenever no read is in progress count equals accepted
\* writes minus completed reads, and the bytes delivered are a prefix of the
\* bytes accepted (none lost, none delivered twice).  Checked under SpecSPSC.
C3_SpscSafeWithoutLock ==
    c_pc = "idle" =>
        /\ rb.count = Len(accepted) - Len(delivered)
        /\ IsPrefix(delivered, accepted)

\* C4: 0 <= count <= N and both cursors lie in 0..N-1.
C4_CountAndCursorsInRange ==
    /\ rb.count \in 0..rb.size
    /\ rb.head \in 0..(rb.size - 1)
    /\ rb.tail \in 0..(rb.size - 1)

\* C4 witness: the buffer is full with the write cursor wrapped back onto a
\* read cursor that stands on the last slot.
C4_Witness ==
    /\ rb.size > 1
    /\ rb.count = rb.size
    /\ rb.tail = rb.size - 1
    /\ rb.head = rb.tail

\* C5: a write on a full buffer and a read on an empty buffer return false
\* and leave head, tail, count and every stored byte unchanged.
C5_RejectedCallsChangeNothing ==
    [][ /\ (last'.op = "write" /\ ring_buffer_is_full(rb))
            => (last'.ret = FALSE /\ rb' = rb)
        /\ (last'.op = "read" /\ ring_buffer_is_empty(rb))
            => (last'.ret = FALSE /\ rb' = rb) ]_vars

\* C5 witness: a write was rejected by a full buffer whose oldest byte is
\* still the first accepted byte not yet read.
C5_Witness ==
    /\ last.op = "write"
    /\ last.wasFull
    /\ last.ret = FALSE
    /\ rb.count = rb.size
    /\ Len(delivered) > 0
    /\ rb.buffer[rb.tail] = accepted[Len(delivered) + 1]

(***************************************************************************)
(* NMEA framer claims (checked under SpecGps).                             *)
(***************************************************************************)
\* What the application can observe of the GPS module.
GpsOutputs(g) == <<g.current_gps_data, g.data_updated, g.data_valid_fix>>

\* The current input stream has been fed completely, and nothing was called
\* since its last byte.
JustFed(t) ==
    /\ tape = t
    /\ pos = Len(GpsTapeTable[t])
    /\ last.op = "char"

\* The bytes accumulated so far, '$' first.
Accumulated(g) == [k \in 1..g.nmea_buffer_index |-> g.nmea_buffer[k - 1]]

\* s without one trailing CR
StripCR(s) ==
    IF Len(s) > 0 /\ s[Len(s)] = 13 THEN SubSeq(s, 1, Len(s) - 1) ELSE s

IsHexDigit(c) == c \in (48..57) \cup (65..70) \cup (97..102)

HexDigitValue(c) ==
    IF c \in 48..57 THEN c - 48
    ELSE IF c \in 65..70 THEN c - 55
    ELSE c - 87

\* The XOR of the bytes s[from..to].
RECURSIVE XorRange(_, _, _)
XorRange(s, from, to) ==
    IF from > to THEN 0
    ELSE IF from = to THEN s[from]
    ELSE LET mid == (from + to) \div 2
         IN  Xor8(XorRange(s, from, mid), XorRange(s, mid + 1, to))

\* C6's sentences: s has no '*', or fewer than two characters after it, or
\* exactly two hex digits after it whose value differs from the XOR of the
\* bytes strictly between '$' and '*'.
ChecksumMismatch(s) ==
    LET star == strchr(s, 42)
    IN  \/ star = 0
        \/ Len(s) - star < 2
        \/ /\ Len(s) - star = 2
           /\ IsHexDigit(s[star + 1])
           /\ IsHexDigit(s[star + 2])
           /\ 16 * HexDigitValue(s[star + 1]) + HexDigitValue(s[star + 2])
                  # XorRange(s, 2, star - 1)

\* C6: when '\n' terminates an accumulating sentence whose checksum digits do
\* not match the XOR of its body (or that has no '*' or under two characters
\* after it), the sentence is not dispatched: the GPS record, the updated
\* flag and the fix validity are unchanged and the framer is IDLE afterwards.
C6_ChecksumMismatchDropped ==
    [][ ( /\ last'.op = "char"
          /\ pos' = pos + 1
          /\ NextByte = 10
          /\ gps.sentence_in_progress
          /\ ChecksumMismatch(StripCR(Accumulated(gps))) )
        => ( /\ GpsOutputs(gps') = GpsOutputs(gps)
             /\ gps'.sentence_in_progress = FALSE ) ]_vars

\* C6 witness: after a valid fix was parsed and retrieved, the same sentence
\* with one checksum digit changed (*6D) has been fed and left no update.
C6_Witness ==
    /\ JustFed(Tape("rmc", 54, 68))
    /\ nTapes = 2
    /\ gps.current_gps_data.seen_rmc
    /\ gps.data_valid_fix
    /\ ~gps.data_updated
    /\ ~gps.sentence_in_progress

\* C7 as stated: after gps_init, feeding the RMC sentence with checksum *6E
\* and CR LF yields fix_valid = true, gps_is_data_available() true and
\* gps_get_data() true.
C7_SpecExampleAccepted ==
    (nTapes = 1 /\ JustFed(Tape("rmc", 54, 69))) =>
        /\ gps.current_gps_data.fix_valid
        /\ gps_is_data_available(gps)
        /\ gps_get_data(gps, TRUE).ret

\* The first input stream t has been fed completely.
FirstFed(t) ==
    /\ nTapes = 1
    /\ tape = t
    /\ pos = Len(GpsTapeTable[t])

\* C7 amended: the bytes between '$' and '*' of that sentence XOR to 0x7D.
\* After gps_init, feeding it with checksum *7D and CR LF yields fix_valid =
\* true, gps_is_data_available() true until the record is retrieved, and
\* gps_get_data() returns true; with *6E as written it is dropped and the
\* record, the updated flag and the validity stay as gps_init left them.
C7_ValidChecksumIs7D ==
    /\ FirstFed(Tape("rmc", 55, 68)) =>
          /\ gps.current_gps_data.fix_valid
          /\ gps.data_valid_fix
          /\ last.op = "char" => gps_is_data_available(gps)
          /\ gps_get_data(gps, TRUE).ret
          /\ (last.op = "get" /\ last.out = <<1>>) => last.ret = TRUE
    /\ FirstFed(Tape("rmc", 54, 69)) =>
          /\ GpsOutputs(gps) = GpsOutputs(gps_init(GpsStatics))
          /\ (last.op = "get") => last.ret = FALSE

\* C7 witness: the *7D sentence was fed after gps_init and gps_get_data then
\* returned true with a valid fix.
C7_Witness ==
    /\ FirstFed(Tape("rmc", 55, 68))
    /\ last.op = "get"
    /\ last.ret = TRUE
    /\ gps.current_gps_data.fix_valid
    /\ gps.current_gps_data.speed_knots = 50000

\* C8: if the accumulator is full (82 bytes buffered) when a byte other than
\* '$' arrives, the sentence in progress is discarded for every value of
\* that byte: the framer is IDLE afterwards and the record, the updated flag
\* and the validity are unchanged.
C8_OverflowDiscardsSentence ==
    [][ ( /\ last'.op = "char"
          /\ pos' = pos + 1
          /\ NextByte # 36
          /\ gps.sentence_in_progress
          /\ gps.nmea_buffer_index = NMEA_MAX_SENTENCE_LEN )
        => ( /\ gps'.sentence_in_progress = FALSE
             /\ GpsOutputs(gps') = GpsOutputs(gps) ) ]_vars

\* The well-formed sentences among the input streams ('$', body, '*', valid
\* two-digit checksum, CR LF; recognised tag, enough fields).
WellFormedTapes == {Tape("rmc", 55, 68), Tape("rmcv", 54, 66), Tape("gga", 53, 70)}

\* What parsing a well-formed sentence must leave in the record.
ParsedAs(t, g) ==
    LET d == g.current_gps_data
    IN  CASE t.kind = "rmc" ->
               /\ d.seen_rmc /\ d.fix_valid /\ g.data_valid_fix
               /\ d.speed_knots = 50000 /\ d.speed_kmh = 92600
               /\ d.course_deg = 900000
          [] t.kind = "rmcv" ->
               /\ d.seen_rmc /\ ~d.fix_valid /\ ~g.data_valid_fix
               /\ d.speed_knots = 125000 /\ d.speed_kmh = 231500
               /\ d.course_deg = 2700000
          [] t.kind = "gga" ->
               /\ d.seen_gga /\ d.fix_quality = 1
               /\ d.satellites_tracked = 8 /\ d.altitude_msl = 105000
               /\ g.data_valid_fix = d.fix_valid

\* C9: whatever was fed before (oversized input without terminator, partial
\* or rejected sentences, bytes outside a sentence), once a complete
\* well-formed sentence has been fed it has been parsed: the updated flag is
\* set, the record holds that sentence's values and the framer is IDLE.
C9_Resynchronises ==
    \A t \in WellFormedTapes :
        JustFed(t) =>
            /\ gps.data_updated
            /\ ParsedAs(t, gps)
            /\ ~gps.sentence_in_progress

\* C9 witness: a well-formed void RMC sentence was parsed right after an
\* oversized input had overflowed the accumulator (its last byte is still
\* in the last slot).
C9_Witness ==
    /\ JustFed(Tape("rmcv", 54, 66))
    /\ nTapes = 2
    /\ gps.nmea_buffer[NMEA_MAX_SENTENCE_LEN - 1] = 88
    /\ gps.data_updated
    /\ gps.current_gps_data.speed_knots = 125000

(***************************************************************************)
(* Sentence dispatch claims (checked under SpecDispatch; C16 under         *)
(* SpecGps).  They are stated on the step that feeds LF to an accumulating *)
(* sentence, in terms of the text accumulated so far.                      *)
(***************************************************************************)
\* The byte fed by this step is an LF that the accumulator has room for and
\* that ends the sentence in progress.
LfEndsSentence ==
    /\ last'.op = "char"
    /\ pos' = pos + 1
    /\ NextByte = 10
    /\ gps.sentence_in_progress
    /\ gps.nmea_buffer_index < NMEA_MAX_SENTENCE_LEN

\* The sentence that LF ends: '$' ... without the trailing CR.
SentenceText == StripCR(Accumulated(gps))

\* The bytes strictly between '$' and '*' (to the end if there is no '*').
BodyOf(s) ==
    LET star == strchr(s, 42)
    IN  SubSeq(s, 2, IF star = 0 THEN Len(s) ELSE star - 1)

\* The comma-separated fields of a body, field 0 first.
FieldsOf(body) ==
    LET commas == Sorted({j \in 1..Len(body) : body[j] = 44})
        n == Len(commas)
    IN  [k \in 1..(n + 1) |->
            SubSeq(body,
                   IF k = 1 THEN 1 ELSE commas[k - 1] + 1,
                   IF k = n + 1 THEN Len(body) ELSE commas[k] - 1)]

\* The text after '*' is exactly two hex digits whose value is the XOR of
\* the body.
StrictChecksumValid(s) ==
    LET star == strchr(s, 42)
    IN  /\ star > 0
        /\ Len(s) - star = 2
        /\ IsHexDigit(s[star + 1])
        /\ IsHexDigit(s[star + 2])
        /\ 16 * HexDigitValue(s[star + 1]) + HexDigitValue(s[star + 2])
               = XorRange(s, 2, star - 1)

\* "GPRMC", "GNRMC"; "GPGGA", "GNGGA"
RmcTags == {<<71, 80, 82, 77, 67>>, <<71, 78, 82, 77, 67>>}
GgaTags == {<<71, 80, 71, 71, 65>>, <<71, 78, 71, 71, 65>>}

TagOf(s) == FieldsOf(BodyOf(s))[1]

FieldCount(s) == Len(FieldsOf(BodyOf(s)))

\* The record and the flags show that an RMC sentence was parsed and no GGA
\* sentence since gps_init, so fix_valid is the status of the last RMC.
OnlyRmcSeen(g) == g.current_gps_data.seen_rmc /\ ~g.current_gps_data.seen_gga

\* C11: an RMC sentence with fewer than 12 fields and a GGA sentence with
\* fewer than 10 fields are dropped, whether or not the checksum is valid:
\* the record (with seen_rmc and seen_gga), the updated flag and the fix
\* validity are unchanged.
C11_ShortSentenceDropped ==
    [][ ( /\ LfEndsSentence
          /\ \/ TagOf(SentenceText) \in RmcTags /\ FieldCount(SentenceText) < 12
             \/ TagOf(SentenceText) \in GgaTags /\ FieldCount(SentenceText) < 10 )
        => GpsOutputs(gps') = GpsOutputs(gps) ]_vars

\* C11 witness: after a GGA sentence was parsed, the 11-field RMC sentence
\* with its valid checksum *3C has been fed and left no trace.
C11_Witness ==
    /\ JustFed(Tape("rmc11", 51, 67))
    /\ nTapes = 2
    /\ gps.current_gps_data.seen_gga
    /\ ~gps.current_gps_data.seen_rmc
    /\ gps.data_updated
    /\ ~gps.sentence_in_progress

\* C12: when a checksum-valid GGA sentence with at least 10 fields is
\* processed and no RMC sentence has been seen since gps_init, or the RMC
\* status seen is void, the fix validity afterwards (record and gps_get_data)
\* equals fix_quality > 0.
C12_GgaValidityFallback ==
    [][ ( /\ LfEndsSentence
          /\ StrictChecksumValid(SentenceText)
          /\ TagOf(SentenceText) \in GgaTags
          /\ FieldCount(SentenceText) >= 10
          /\ \/ ~gps.current_gps_data.seen_rmc
             \/ OnlyRmcSeen(gps) /\ ~gps.current_gps_data.fix_valid )
        => ( /\ gps'.current_gps_data.fix_valid
                  = (gps'.current_gps_data.fix_quality > 0)
             /\ gps_get_data(gps', TRUE).ret
                  = (gps'.current_gps_data.fix_quality > 0) ) ]_vars

\* C13: once an RMC sentence with status 'A' has been processed, a later
\* checksum-valid GGA sentence, whatever its fields and fix quality, leaves
\* the fix validity true.
C13_RmcValidityPrecedence ==
    [][ ( /\ LfEndsSentence
          /\ StrictChecksumValid(SentenceText)
          /\ TagOf(SentenceText) \in GgaTags
          /\ OnlyRmcSeen(gps)
          /\ gps.current_gps_data.fix_valid
          /\ gps.data_valid_fix )
        => ( /\ gps'.current_gps_data.fix_valid
             /\ gps'.data_valid_fix ) ]_vars

\* C14: after a checksum-valid GPRMC/GNRMC sentence with at least 12 fields
\* is processed, fix_valid and the value gps_get_data returns both equal
\* (field 2 starts with 'A'), seen_rmc is true and the updated flag is set.
C14_RmcStatusSetsValidity ==
    [][ ( /\ LfEndsSentence
          /\ StrictChecksumValid(SentenceText)
          /\ TagOf(SentenceText) \in RmcTags
          /\ FieldCount(SentenceText) >= 12 )
        => LET active == FirstChar(FieldsOf(BodyOf(SentenceText))[3]) = 65
           IN  /\ gps'.current_gps_data.fix_valid = active
               /\ gps_get_data(gps', TRUE).ret = active
               /\ gps'.current_gps_data.seen_rmc
               /\ gps'.data_updated ]_vars

\* C14 witness: after a valid fix, the void GN-talker RMC sentence has been
\* parsed: the fix is no longer valid and the record holds its speed.
C14_Witness ==
    /\ JustFed(Tape("gnrmc", 55, 53))
    /\ nTapes = 2
    /\ gps.current_gps_data.seen_rmc
    /\ ~gps.current_gps_data.fix_valid
    /\ ~gps.data_valid_fix
    /\ gps.data_updated
    /\ gps.current_gps_data.hour = 12
    /\ gps.current_gps_data.speed_knots = 125000

\* C15: a checksum-valid sentence whose tag is anything other than exactly
\* GPRMC, GNRMC, GPGGA or GNGGA produces no update: the record, the updated
\* flag and the fix validity are unchanged.
C15_OtherTagNoUpdate ==
    [][ ( /\ LfEndsSentence
          /\ StrictChecksumValid(SentenceText)
          /\ TagOf(SentenceText) \notin (RmcTags \cup GgaTags) )
        => GpsOutputs(gps') = GpsOutputs(gps) ]_vars

\* C16: while the framer is IDLE every byte other than '$' changes nothing
\* (accumulator, index, framer state, record, flags); a '$' leaves "$" as the
\* accumulated text and enters ACCUMULATING, record and flags unchanged.
C16_IdleIgnoresAllButDollar ==
    [][ ( /\ last'.op = "char"
          /\ pos' = pos + 1
          /\ ~gps.sentence_in_progress )
        => IF NextByte = 36
           THEN /\ Accumulated(gps') = <<36>>
                /\ gps'.sentence_in_progress
                /\ GpsOutputs(gps') = GpsOutputs(gps)
           ELSE gps' = gps ]_vars

\* C16 witness: after a sentence was parsed, the bytes of a stream without
\* '$' (among them "*7D" LF) have all been fed to the IDLE framer.
C16_Witness ==
    /\ JustFed(Tape("junk", 0, 0))
    /\ nTapes = 2
    /\ ~gps.sentence_in_progress
    /\ gps.nmea_buffer_index > 1
    /\ gps.current_gps_data.seen_rmc

\* C17: a sentence is accepted only if the text after '*' is exactly two
\* hex digits whose value equals the XOR; with a checksum field of any other
\* shape the sentence is rejected and updates nothing.
C17_OnlyTwoHexDigitsAccepted ==
    [][ ( /\ LfEndsSentence
          /\ ~StrictChecksumValid(SentenceText) )
        => GpsOutputs(gps') = GpsOutputs(gps) ]_vars

\* The updated flag goes from false to true in this step.
FlagRises == ~gps.data_updated /\ gps'.data_updated

C10_OverflowThenFrameParses ==
    \A n \in OversizeLengths :
        ( /\ n > BLE_RX_BUFFER_LEN
          /\ tape = Tape("ble_over", n, 0)
          /\ pos = Len(BleTapeTable[tape])
          /\ last.op = "char" )
        => ( /\ ble.current_nav_data.instruction = TurnLeftText
             /\ ble.current_nav_data.distance_m = 120
             /\ ble.current_nav_data.updated
             /\ ble.rx_buffer_idx = 0 )

\* The well-formed NAV lines among the input streams.
NavLineTapes ==
    {Tape("nav", 0, 0), Tape("nav2", 0, 0)} \cup {Tape("nav_fill", n, 0) : n \in {1, 63}}

\* The nav record a well-formed NAV line must produce.
NavExpected(t) ==
    CASE t.kind = "nav" ->
           [instruction |-> TurnLeftText, distance_m |-> 120, updated |-> TRUE]
      [] t.kind = "nav2" ->
           [instruction |-> GoStraightText, distance_m |-> 65535, updated |-> TRUE]
      [] t.kind = "nav_fill" ->
           [instruction |-> Fill(66, t.a), distance_m |-> 0, updated |-> TRUE]

\* C19: after ble_rx_init, once the bytes of a line NAV:<text>,<d> and LF
\* have been fed, ble_rx_is_nav_available() is true and the next
\* ble_rx_get_nav_data returns true with instruction <text> and distance <d>;
\* right after that retrieval ble_rx_is_nav_available() is false;
\* ble_rx_is_connected() is true.
C19_NavLineDelivered ==
    \A t \in NavLineTapes :
        (nTapes = 1 /\ tape = t /\ pos = Len(BleTapeTable[t])) =>
            /\ ble_rx_is_connected(ble)
            /\ last.op = "char" => ble_rx_is_nav_available(ble)
            /\ ble_rx_is_nav_available(ble) =>
                  /\ ble_rx_get_nav_data(ble, TRUE).ret
                  /\ ble_rx_get_nav_data(ble, TRUE).data = <<NavExpected(t)>>
                  /\ ~ble_rx_is_nav_available(ble_rx_get_nav_data(ble, TRUE).ble)
            /\ (last.op = "get_nav" /\ last.ret) =>
                  /\ last.out = <<NavExpected(t)>>
                  /\ ~ble_rx_is_nav_available(ble)
                  /\ ble.current_nav_data.instruction = NavExpected(t).instruction

\* C19 witness: the NAV line with the 63-byte instruction was fed after
\* ble_rx_init and then retrieved.
C19_Witness ==
    /\ nTapes = 1
    /\ tape = Tape("nav_fill", 63, 0)
    /\ pos = Len(BleTapeTable[tape])
    /\ last.op = "get_nav"
    /\ last.ret
    /\ Len(ble.current_nav_data.instruction) = 63
    /\ ble.is_connected

\* The lines that miss a field: STATUS with fewer than three integers, NAV
\* without instruction or without distance.
MissingFieldTapes ==
    {Tape("status_short", 0, 0)} \cup {Tape("malformed", i, 0) : i \in 1..Len(MalformedLines)}

\* C20: a STATUS line with fewer than three unsigned integer fields and a
\* NAV line missing the instruction or the distance are dropped: the status
\* record, the nav record, their updated flags and the connected flag are
\* unchanged by every byte of the line.
C20_MissingFieldDropped ==
    [][ ( /\ tape \in MissingFieldTapes
          /\ last'.op = "char"
          /\ pos' = pos + 1 )
        => ( /\ ble'.current_status_data = ble.current_status_data
             /\ ble'.current_nav_data = ble.current_nav_data
             /\ ble'.is_connected = ble.is_connected ) ]_vars

\* C20 witness: after a full STATUS line was parsed, "STATUS:100,2" has
\* been fed and the status record still holds the earlier values.
C20_Witness ==
    /\ tape = Tape("status_short", 0, 0)
    /\ pos = Len(BleTapeTable[tape])
    /\ last.op = "char"
    /\ nTapes = 2
    /\ ble.current_status_data.battery_mv = 3700
    /\ ble.current_status_data.updated
    /\ ble.rx_buffer_idx = 0

(***************************************************************************)
(* Telemetry line handling claims (checked under SpecLines).               *)
(***************************************************************************)
\* The bytes accumulated for the line in progress.
BleAccumulated(b) == [k \in 1..b.rx_buffer_idx |-> b.rx_buffer[k - 1]]

\* The step hands the next byte of the input stream to ble_rx_process_char.
FeedStep == last'.op = "char" /\ pos' = pos + 1

\* Both records with their updated flags, and the connected flag.
BleOutputs(b) == <<b.current_status_data, b.current_nav_data, b.is_connected>>

\* C21: a byte that is neither the terminator nor printable ASCII is dropped
\* in every framer state, also with a full accumulator: the accumulator
\* contents and fill index, both records, both updated flags and the
\* connected flag are unchanged.
C21_NonPrintableDropped ==
    [][ ( /\ FeedStep
          /\ BleNextByte # BLE_MSG_TERMINATOR
          /\ BleNextByte \notin 32..126 )
        => ( /\ ble'.rx_buffer_idx = ble.rx_buffer_idx
             /\ BleAccumulated(ble') = BleAccumulated(ble)
             /\ BleOutputs(ble') = BleOutputs(ble) ) ]_vars

\* C22: when the accumulator has no room left and a printable byte other
\* than the terminator arrives, the line in progress is discarded without
\* being parsed: the fill index becomes 0, the byte is not stored, and no
\* record, updated flag or connected flag changes.
C22_FullAccumulatorDiscardsLine ==
    [][ ( /\ FeedStep
          /\ ble.rx_buffer_idx >= BLE_RX_BUFFER_LEN - 1
          /\ BleNextByte \in 32..126 )
        => ( /\ ble'.rx_buffer_idx = 0
             /\ ble'.rx_buffer = ble.rx_buffer
             /\ BleOutputs(ble') = BleOutputs(ble) ) ]_vars

\* C22 witness: after a NAV line was parsed, 127 bytes 'A' filled the
\* accumulator and the byte 'B' has just been fed: the accumulator is empty,
\* its first cell still holds 'A' and the nav record is the one parsed.
C22_Witness ==
    /\ tape = Tape("full_then", 66, 0)
    /\ pos = BLE_RX_BUFFER_LEN
    /\ last.op = "char"
    /\ last.out = <<66>>
    /\ nTapes = 2
    /\ ble.rx_buffer_idx = 0
    /\ ble.rx_buffer[0] = 65
    /\ ble.current_nav_data.updated
    /\ ble.current_nav_data.instruction = TurnLeftText

\* C23: a terminated line that begins with neither "NAV:" nor "STATUS:" is
\* discarded: neither record is updated, neither updated flag changes and
\* the connected flag is unaffected.
C23_UnknownPrefixDiscarded ==
    [][ ( /\ FeedStep
          /\ BleNextByte = BLE_MSG_TERMINATOR
          /\ ble.rx_buffer_idx > 0
          /\ ~IsPrefix(NavPrefix, BleAccumulated(ble))
          /\ ~IsPrefix(StatusPrefix, BleAccumulated(ble)) )
        => BleOutputs(ble') = BleOutputs(ble) ]_vars

\* C23 witness: "NAV;Turn left,120" LF has been fed after a STATUS line was
\* parsed; the status record is still the parsed one and the nav record is
\* the one left by ble_rx_init.
C23_Witness ==
    /\ tape = Tape("unknown_line", 2, 0)
    /\ pos = Len(BleTapeTable[tape])
    /\ last.op = "char"
    /\ nTapes = 2
    /\ ble.current_status_data.updated
    /\ ble.current_status_data.battery_mv = 3700
    /\ ble.current_nav_data.instruction = ConnectingText
    /\ ~ble.current_nav_data.updated
    /\ ble.is_connected

\* C24: after ble_rx_process_char processed a terminator the fill index is
\* 0, whether the line was empty, parsed or rejected; a terminator arriving
\* on an empty accumulator changes nothing at all.
C24_TerminatorEmptiesAccumulator ==
    [][ ( /\ FeedStep
          /\ BleNextByte = BLE_MSG_TERMINATOR )
        => ( /\ ble'.rx_buffer_idx = 0
             /\ ble.rx_buffer_idx = 0 => ble' = ble ) ]_vars

\* C24 witness: the second of two terminators in a row has been fed after a
\* NAV line was parsed.
C24_Witness ==
    /\ tape = Tape("blank", 0, 2)
    /\ pos = 2
    /\ last.op = "char"
    /\ nTapes = 2
    /\ ble.rx_buffer_idx = 0
    /\ ble.current_nav_data.updated
    /\ ble.is_connected

\* The records that the lines of the streams "nav_twice" and "status_twice"
\* produce.
NavFirst == [instruction |-> TurnLeftText, distance_m |-> 120, updated |-> TRUE]
NavSecond == [instruction |-> GoStraightText, distance_m |-> 65535, updated |-> TRUE]
StatusFirst == [battery_mv |-> 3700, signal_status |-> 2, speed_kmh |-> 45, updated |-> TRUE]
StatusLatest == [battery_mv |-> 4100, signal_status |-> 5, speed_kmh |-> 60, updated |-> TRUE]

\* The step feeds the last byte of the stream t.
FeedsLastByteOf(t) == FeedStep /\ tape = t /\ pos' = Len(BleTapeTable[t])

\* C25: the records are read-and-clear, not queued.  When a second valid
\* NAV (STATUS) frame is parsed while the first is still unretrieved, the
\* record holds the second frame's values; a retrieval of an updated record
\* returns true with the record's values and clears the updated flag; a
\* retrieval of a record that is not updated returns false, writes nothing
\* to the caller's output and changes nothing.
C25_ReadAndClear ==
    [][ /\ (FeedsLastByteOf(Tape("nav_twice", 0, 0)) /\ ble.current_nav_data = NavFirst)
              => ble'.current_nav_data = NavSecond
        /\ (FeedsLastByteOf(Tape("status_twice", 0, 0)) /\ ble.current_status_data = StatusFirst)
              => ble'.current_status_data = StatusLatest
        /\ ble.current_nav_data.updated =>
              LET first == ble_rx_get_nav_data(ble, TRUE)
                  second == ble_rx_get_nav_data(first.ble, TRUE)
              IN  /\ first.ret
                  /\ first.data = <<ble.current_nav_data>>
                  /\ ~second.ret
                  /\ second.data = <<>>
        /\ ble.current_status_data.updated =>
              LET first == ble_rx_get_status_data(ble, TRUE)
                  second == ble_rx_get_status_data(first.ble, TRUE)
              IN  /\ first.ret
                  /\ first.data = <<ble.current_status_data>>
                  /\ ~second.ret
                  /\ second.data = <<>>
        /\ last'.op = "get_nav" =>
              IF last'.ret
              THEN /\ ble.current_nav_data.updated
                   /\ last'.out = <<ble.current_nav_data>>
                   /\ ble' = [ble EXCEPT !.current_nav_data.updated = FALSE]
              ELSE /\ last'.out = <<>>
                   /\ ble' = ble
        /\ last'.op = "get_status" =>
              IF last'.ret
              THEN /\ ble.current_status_data.updated
                   /\ last'.out = <<ble.current_status_data>>
                   /\ ble' = [ble EXCEPT !.current_status_data.updated = FALSE]
              ELSE /\ last'.out = <<>>
                   /\ ble' = ble ]_vars

\* C25 witness: both NAV lines of "nav_twice" were fed and the retrieval
\* that followed returned the second line's values and cleared the flag.
C25_Witness ==
    /\ tape = Tape("nav_twice", 0, 0)
    /\ pos = Len(BleTapeTable[tape])
    /\ last.op = "get_nav"
    /\ last.ret
    /\ last.out = <<NavSecond>>
    /\ ~ble.current_nav_data.updated
    /\ ble.current_nav_data.instruction = GoStraightText

\* A non-empty run of decimal digits.
IsUnsignedText(s) == Len(s) > 0 /\ \A k \in 1..Len(s) : isdigit(s[k])

\* The line is "NAV:" <instruction, no comma, 1..63 bytes> "," <unsigned>.
SuppliesNavFields(line) ==
    /\ IsPrefix(NavPrefix, line)
    /\ LET f == FieldsOf(SubSeq(line, Len(NavPrefix) + 1, Len(line)))
       IN  /\ Len(f) = 2
           /\ Len(f[1]) \in 1..63
           /\ IsUnsignedText(f[2])

\* The line is "STATUS:" <unsigned> "," <unsigned> "," <unsigned>.
SuppliesStatusFields(line) ==
    /\ IsPrefix(StatusPrefix, line)
    /\ LET f == FieldsOf(SubSeq(line, Len(StatusPrefix) + 1, Len(line)))
       IN  /\ Len(f) = 3
           /\ \A k \in 1..3 : IsUnsignedText(f[k])

\* The step processes the terminator of a non-empty accumulated line.
TerminatesLine == FeedStep /\ BleNextByte = BLE_MSG_TERMINATOR /\ ble.rx_buffer_idx > 0

\* C26: a record's updated flag goes from false to true, and a record field
\* is modified, only in a ble_rx_process_char step that processes the
\* terminator of a non-empty line beginning with that record's prefix and
\* supplying all its fields (NAV: instruction and unsigned distance; STATUS:
\* three unsigned integers); no other byte, no rejected line and no accessor
\* call does so.
C26_FlagRisesOnlyOnValidLine ==
    [][ /\ ( \/ ~ble.current_nav_data.updated /\ ble'.current_nav_data.updated
             \/ ble'.current_nav_data.instruction # ble.current_nav_data.instruction
             \/ ble'.current_nav_data.distance_m # ble.current_nav_data.distance_m )
           => (TerminatesLine /\ SuppliesNavFields(BleAccumulated(ble)))
        /\ ( \/ ~ble.current_status_data.updated /\ ble'.current_status_data.updated
             \/ ble'.current_status_data.battery_mv # ble.current_status_data.battery_mv
             \/ ble'.current_status_data.signal_status # ble.current_status_data.signal_status
             \/ ble'.current_status_data.speed_kmh # ble.current_status_data.speed_kmh )
           => (TerminatesLine /\ SuppliesStatusFields(BleAccumulated(ble))) ]_vars

(***************************************************************************)
(* Ring buffer claims on peek, bulk transfer and rejected initialisation.  *)
(***************************************************************************)
\* The byte that the n-th ring_buffer_read from r on returns (n >= 1).
RECURSIVE NthRead(_, _)
NthRead(r, n) ==
    LET x == ring_buffer_read(r, TRUE)
    IN  IF n = 1 THEN x.data ELSE NthRead(x.rb, n - 1)

\* C27: ring_buffer_peek(offset) returns true exactly when offset < count,
\* then yields the byte that the (offset+1)-th subsequent ring_buffer_read
\* would return, also when tail + offset wraps past the end of the storage,
\* and in every case leaves head, tail, count and the stored bytes
\* unchanged.
C27_PeekIsNthRead ==
    [][ /\ \A off \in 0..(MaxCap + 1) :
              LET x == ring_buffer_peek(rb, TRUE, off)
              IN  /\ x.ret = (off < rb.count)
                  /\ x.ret => x.data = NthRead(rb, off + 1)
        /\ last'.op = "peek" =>
              /\ rb' = rb
              /\ last'.ret => /\ last'.out[1] < rb.count
                              /\ last'.out[2] = NthRead(rb, last'.out[1] + 1)
              /\ last'.out[1] >= rb.count => ~last'.ret ]_vars

\* C27 witness: a peek succeeded at an offset that wraps past the end of
\* the storage and returned a byte other than the one at the read cursor.
C27_Witness ==
    /\ last.op = "peek"
    /\ last.ret
    /\ last.out[1] > 0
    /\ rb.tail + last.out[1] >= rb.size
    /\ last.out[2] # rb.buffer[rb.tail]
    /\ Len(delivered) > 0

\* C28: ring_buffer_write_multi returns min(length, space remaining) and
\* appends exactly that many leading bytes in order; ring_buffer_read_multi
\* returns min(length, bytes available) and removes exactly that many oldest
\* bytes in order; a short transfer leaves the buffer full (write) or empty
\* (read).
C28_BulkTransfersWhatFits ==
    /\ \A data \in SeqsUpTo(Bytes, MaxMulti) :
          LET w == ring_buffer_write_multi(rb, TRUE, data)
              n == Min(Len(data), ring_buffer_space_remaining(rb))
          IN  /\ w.ret = n
              /\ Contents(w.rb) = Contents(rb) \o SubSeq(data, 1, n)
              /\ w.rb.size = rb.size
              /\ w.rb.tail = rb.tail
              /\ n < Len(data) => ring_buffer_is_full(w.rb)
    /\ \A length \in 0..MaxMulti :
          LET x == ring_buffer_read_multi(rb, TRUE, length)
              n == Min(length, ring_buffer_bytes_available(rb))
          IN  /\ x.ret = n
              /\ x.out = SubSeq(Contents(rb), 1, n)
              /\ Contents(x.rb) = SubSeq(Contents(rb), n + 1, rb.count)
              /\ x.rb.size = rb.size
              /\ x.rb.head = rb.head
              /\ n < length => ring_buffer_is_empty(x.rb)
    /\ (last.op = "write_multi" /\ last.ret < Len(last.out) /\ last.ret > 0)
          => ring_buffer_is_full(rb)
    /\ (last.op = "read_multi" /\ last.ret > 0)
          => /\ Len(last.out) = last.ret
             /\ IsPrefix(last.out, SubSeq(delivered, Len(delivered) - last.ret + 1, Len(delivered)))

\* C28 witness: a bulk write of two bytes stored only the first one, across
\* the end of the storage, and left the buffer full.
C28_Witness ==
    /\ last.op = "write_multi"
    /\ Len(last.out) = 2
    /\ last.ret = 1
    /\ ring_buffer_is_full(rb)
    /\ rb.size = 2
    /\ rb.head = rb.tail
    /\ rb.tail = 1
    /\ Len(delivered) > 0

\* The arguments of the ring_buffer_init call recorded in c are rejected:
\* no storage or capacity 0.
InitRejected(c) == c.op = "rb_init" /\ (c.out[1] = 0 \/ c.out[2] = 0)

\* C29: ring_buffer_init with capacity 0 or without storage leaves every
\* field of the struct unchanged; on a zero-initialised struct whose init
\* was rejected, every ring_buffer_write, ring_buffer_read and
\* ring_buffer_peek returns failure and changes nothing, and none of them
\* reaches the statement that takes a remainder by the size.
C29_RejectedInitDegrades ==
    [][ /\ InitRejected(last') => rb' = rb
        /\ rb = RbZero =>
              /\ ring_buffer_is_full(rb)
              /\ ring_buffer_is_empty(rb)
              /\ \A d \in Bytes : ring_buffer_write(rb, d) = [rb |-> rb, ret |-> FALSE]
              /\ ring_buffer_read(rb, TRUE).ret = FALSE
              /\ ring_buffer_read(rb, TRUE).rb = rb
              /\ \A off \in 0..MaxCap : ring_buffer_peek(rb, TRUE, off).ret = FALSE
              /\ last'.op \in {"write", "read", "peek"} =>
                    /\ last'.ret = FALSE
                    /\ rb' = rb
                    /\ accepted' = accepted
                    /\ delivered' = delivered ]_vars

\* C29 witness: on the zero-initialised struct a rejected ring_buffer_init
\* was followed by a write, which failed.
C29_Witness ==
    /\ rb = RbZero
    /\ last.op = "write"
    /\ last.ret = FALSE
    /\ last.wasFull
    /\ last.wasEmpty
    /\ accepted = <<>>

(***************************************************************************)
(* Telemetry round trip (checked under SpecRoundTrip).                     *)
(***************************************************************************)
\* A comma-free printable text of at most 63 bytes.
IsInstructionText(s) ==
    /\ Len(s) <= 63
    /\ \A k \in 1..Len(s) : s[k] \in 32..126 /\ s[k] # 44

\* The last byte of the frame t has just been handed to the framer.
Delivered(t) == tape = t /\ pos = Len(BleTapeTable[t]) /\ last.op = "char"

\* The nav record equals instruction i with distance d, marked updated.
NavRecordIs(i, d) ==
    ble.current_nav_data = [instruction |-> Instructions[i], distance_m |-> d, updated |-> TRUE]

\* Every status frame sent arrives as the status record sent.
StatusRoundTrips ==
    \A k \in 1..Len(StatusValues) :
        Delivered(Tape("sent_status", k, 0)) =>
            /\ SentFrame(Tape("sent_status", k, 0)).ret
            /\ ble.current_status_data =
                  [battery_mv |-> StatusValues[k][1], signal_status |-> StatusValues[k][2],
                   speed_kmh |-> StatusValues[k][3], updated |-> TRUE]

\* C30 as stated: for every comma-free printable instruction text of at
\* most 63 characters and every distance in 0..65535, the bytes emitted by
\* ble_uart_send_nav_update and fed one at a time into ble_rx_process_char
\* give a nav record with the instruction and the distance sent; likewise
\* ble_uart_send_status_update gives the status record sent.
C30_RoundTripAnyText ==
    /\ \A t \in SentTapes :
          ( /\ t.kind = "sent_nav"
            /\ t.a > 0
            /\ IsInstructionText(Instructions[t.a])
            /\ Delivered(t) )
          => NavRecordIs(t.a, t.b)
    /\ StatusRoundTrips

\* C30 amended: the round trip holds for every non-empty comma-free
\* printable instruction text of at most 63 characters and every distance
\* sent, and for every status triple.
C30_RoundTripNonEmptyText ==
    /\ \A t \in SentTapes :
          ( /\ t.kind = "sent_nav"
            /\ t.a > 0
            /\ IsInstructionText(Instructions[t.a])
            /\ Len(Instructions[t.a]) > 0
            /\ Delivered(t) )
          => ( /\ SentFrame(t).ret
               /\ NavRecordIs(t.a, t.b)
               /\ ble.is_connected )
    /\ StatusRoundTrips

\* C30 witness: the frame for the 63-byte instruction with distance 65535
\* has been delivered as the second frame and the nav record holds both.
C30_Witness ==
    /\ Delivered(Tape("sent_nav", 4, 65535))
    /\ nTapes = 2
    /\ Len(ble.current_nav_data.instruction) = 63
    /\ ble.current_nav_data.distance_m = 65535
    /\ ble.current_nav_data.updated
    /\ ble.current_status_data.battery_mv = 65535

(***************************************************************************)
(* The array indices the two framers use.  Each operator follows the       *)
(* branches of its handler and collects the index of every nmea_buffer /   *)
(* rx_buffer element the handler reads or writes for the byte given.       *)
(***************************************************************************)
\* gps_process_char, the '\n' branch: nmea_buffer[index] = '\0', the test of
\* nmea_buffer[index - 2] when index > 1, and the '\0' written over the CR
\* or over the last byte.
nmea_end_of_sentence_indices(g) ==
    LET idx == g.nmea_buffer_index
    IN  {idx} \cup (IF idx > 1
                    THEN {idx - 2} \cup (IF g.nmea_buffer[idx - 2] = 13
                                         THEN {}
                                         ELSE {idx - 1})
                    ELSE {idx - 1})

gps_process_char_indices(g, received_char) ==
    IF received_char = 36
    THEN {0}
    ELSE IF g.sentence_in_progress
    THEN LET stores == g.nmea_buffer_index < NMEA_MAX_SENTENCE_LEN
             g1 == IF stores
                   THEN [g EXCEPT !.nmea_buffer[g.nmea_buffer_index] = received_char,
                                  !.nmea_buffer_index = g.nmea_buffer_index + 1]
                   ELSE g
         IN  (IF stores THEN {g.nmea_buffer_index} ELSE {})
             \cup (IF received_char = 10 THEN nmea_end_of_sentence_indices(g1) ELSE {})
    ELSE {}

ble_rx_process_char_indices(b, received_char) ==
    IF received_char = BLE_MSG_TERMINATOR
    THEN IF b.rx_buffer_idx > 0 THEN {b.rx_buffer_idx} ELSE {}
    ELSE IF b.rx_buffer_idx < BLE_RX_BUFFER_LEN - 1
    THEN IF received_char >= 32 /\ received_char <= 126
         THEN {b.rx_buffer_idx}
         ELSE {}
    ELSE {}

(***************************************************************************)
(* SpecFramers: both framers, each fed with streams that reach or pass the *)
(* end of its accumulator.                                                 *)
(***************************************************************************)
\* Streams for the NMEA framer: unterminated input of 82 and 83 bytes, a
\* full accumulator followed by LF, CR or 'A', a complete sentence, a
\* sentence cut short and bytes without '$'.
BoundGpsTapes ==
    {Tape("over", 82, 0), Tape("over", 83, 0)}
    \cup {Tape("full", 0, ob) : ob \in OverflowBytes}
    \cup {Tape("rmc", 55, 68), Tape("partial", 0, 0), Tape("junk", 0, 0)}

\* Streams for the telemetry framer: unterminated input of 127 and 128
\* bytes before a NAV line, a full accumulator followed by BEL or 'B', lines
\* of 126 and 127 bytes, a NAV line and an empty line.
BoundBleTapes ==
    {Tape("ble_over", 127, 0), Tape("ble_over", 128, 0)}
    \cup {Tape("full_then", 7, 0), Tape("full_then", 66, 0)}
    \cup {Tape("fill_lf", 126, 0), Tape("fill_lf", 127, 0)}
    \cup {Tape("nav", 0, 0), Tape("blank", 0, 1)}

\* Bytes received so far have all been handed over; the next stream starts.
FramersNextTape ==
    /\ tape \in BoundGpsTapes => pos = Len(GpsTapeTable[tape])
    /\ tape \in BoundBleTapes => pos = Len(BleTapeTable[tape])
    /\ nTapes < MaxTapes
    /\ tape' \in BoundGpsTapes \cup BoundBleTapes
    /\ pos' = 0
    /\ nTapes' = nTapes + 1
    /\ last' = Call("tape", TRUE, <<>>)
    /\ UNCHANGED <<rbVars, spscVars, gps, ble, moduleVars>>

\* brain node, process_communication: the next GPS byte
FramersGpsFeed ==
    /\ tape \in BoundGpsTapes
    /\ GpsFeed

\* display node, process_ble_input: the next telemetry byte
FramersBleFeed ==
    /\ tape \in BoundBleTapes
    /\ BleFeed

NextFramers ==
    \/ FramersNextTape
    \/ FramersGpsFeed
    \/ FramersBleFeed

SpecFramers == InitGps /\ [][NextFramers]_vars

\* Every value a uint8_t argument can take.
AllBytes == 0..255

\* C31: in both framers the fill index never exceeds its buffer
\* (nmea_buffer_index <= 82, rx_buffer_idx <= 127), and whatever byte is
\* received next, every element the handler touches while storing the
\* byte, stripping CR/LF or writing the terminating NUL lies inside
\* nmea_buffer[0..82] or rx_buffer[0..127].  Checked under SpecFramers.
C31_FillIndexWithinBuffer ==
    /\ gps.nmea_buffer_index \in 0..NMEA_MAX_SENTENCE_LEN
    /\ ble.rx_buffer_idx \in 0..(BLE_RX_BUFFER_LEN - 1)
    /\ \A c \in AllBytes :
          /\ gps_process_char_indices(gps, c) \subseteq 0..NMEA_MAX_SENTENCE_LEN
          /\ ble_rx_process_char_indices(ble, c) \subseteq 0..(BLE_RX_BUFFER_LEN - 1)

\* C31 witness: both accumulators are full at once, the NMEA framer still
\* accumulating, after the byte that filled the telemetry accumulator.
C31_Witness ==
    /\ gps.nmea_buffer_index = NMEA_MAX_SENTENCE_LEN
    /\ gps.sentence_in_progress
    /\ ble.rx_buffer_idx = BLE_RX_BUFFER_LEN - 1
    /\ last.op = "char"

(***************************************************************************)
(* SpecDrain: the receive path up to the framer.  The receive interrupt    *)
(* writes received bytes to the ring buffer; the main loop enters          *)
(* process_communication, whose loop                                       *)
(*   while (hal_uart_data_available(id)) {                                 *)
(*       data = hal_uart_get_char(id);                                     *)
(*       if (data != -1) gps_process_char((uint8_t)data); }                *)
(* polls, reads one byte with ring_buffer_read and hands it to the framer. *)
(* As in SpecSPSC the interrupt can run between any two memory accesses of *)
(* the main loop.  process_ble_input on the display node is the same loop  *)
(* around ble_rx_process_char.                                             *)
(***************************************************************************)
\* main loop: process_communication is called
DrainEnter ==
    /\ c_pc = "idle"
    /\ c_pc' = "poll"
    /\ last' = Call("drain_enter", TRUE, <<>>)
    /\ UNCHANGED <<rbVars, c_reg, c_data, framerVars, moduleVars>>

\* the loop condition hal_uart_data_available: !ring_buffer_is_empty(rb);
\* false ends the loop
DrainPoll ==
    /\ c_pc = "poll"
    /\ IF ring_buffer_is_empty(rb)
       THEN /\ c_pc' = "idle"
            /\ last' = Call("drain_done", TRUE, <<>>)
       ELSE /\ c_pc' = "check"
            /\ last' = Call("drain_poll", TRUE, <<>>)
    /\ UNCHANGED <<rbVars, c_reg, c_data, framerVars, moduleVars>>

\* hal_uart_get_char -> ring_buffer_read: the ring_buffer_is_empty test;
\* when it fails hal_uart_get_char returns -1 and the loop polls again
DrainCheck ==
    /\ c_pc = "check"
    /\ IF ring_buffer_is_empty(rb)
       THEN /\ c_pc' = "poll"
            /\ last' = Call("get_char", FALSE, <<>>)
       ELSE /\ c_pc' = "load"
            /\ last' = Call("get_char_enter", TRUE, <<>>)
    /\ UNCHANGED <<rbVars, c_reg, c_data, framerVars, moduleVars>>

\* rb->count-- : the store; ring_buffer_read returns true, hal_uart_get_char
\* returns the byte and the loop body hands it to gps_process_char
DrainStoreCount ==
    /\ c_pc = "stcount"
    /\ rb' = [rb EXCEPT !.count = c_reg - 1]
    /\ delivered' = Append(delivered, c_data)
    /\ gps' = gps_process_char(gps, c_data)
    /\ last' = Call("get_char", TRUE, <<c_data>>)
    /\ c_pc' = "poll"
    /\ c_reg' = 0
    /\ c_data' = 0
    /\ UNCHANGED <<accepted, ble, tapeVars, moduleVars>>

NextDrain ==
    \/ IsrRx
    \/ DrainEnter
    \/ DrainPoll
    \/ DrainCheck
    \/ ConsumerLoad
    \/ ConsumerTail
    \/ ConsumerLoadCount
    \/ DrainStoreCount

SpecDrain == Init /\ [][NextDrain]_vars

\* C32: the bytes handed to the framer are, in order and each once, the
\* bytes the ring buffer accepted: what has been delivered is always a
\* prefix of what was accepted, and when the drain loop ends (its poll found
\* the buffer empty, nothing received since) every accepted byte has been
\* delivered and the ring buffer is empty.  Checked under SpecDrain.
C32_DrainDeliversAcceptedInOrder ==
    /\ IsPrefix(delivered, accepted)
    /\ last.op = "drain_done" =>
          /\ delivered = accepted
          /\ rb.head = rb.tail
          /\ ring_buffer_is_empty(rb)

\* C33: in every state reached by ring_buffer_init, write, read, peek,
\* clear and the bulk variants, called one after the other,
\* head = (tail + count) mod N, so head = tail exactly when the buffer is
\* empty or full.  Checked under Spec.
C33_HeadIsTailPlusCount ==
    /\ rb.head = (rb.tail + rb.count) % rb.size
    /\ rb.head = rb.tail <=> (ring_buffer_is_empty(rb) \/ ring_buffer_is_full(rb))

\* C33 witness: a write wrapped the head round to meet the tail away from
\* slot 0, in a full buffer of more than one slot from which bytes have
\* been read.
C33_Witness ==
    /\ last.op = "write"
    /\ last.ret = TRUE
    /\ ring_buffer_is_full(rb)
    /\ rb.size > 1
    /\ rb.head = rb.tail
    /\ rb.tail > 0
    /\ Len(delivered) > 0

(***************************************************************************)
(* SpecRestart: the NMEA framer fed with streams in which a '$' arrives    *)
(* inside a sentence, after a complete but unterminated sentence, at a     *)
(* full accumulator and after an overflow, while the application polls.    *)
(***************************************************************************)
RestartNextTape ==
    /\ pos = Len(GpsTapeTable[tape])
    /\ nTapes < MaxTapes
    /\ tape' \in RestartTapes
    /\ pos' = 0
    /\ nTapes' = nTapes + 1
    /\ last' = Call("tape", TRUE, <<>>)
    /\ UNCHANGED <<rbVars, spscVars, gps, ble, moduleVars>>

NextRestart ==
    \/ RestartNextTape
    \/ GpsFeed
    \/ GpsGetData
    \/ GpsIsDataAvailable

SpecRestart == InitGps /\ [][NextRestart]_vars

\* The position of the last '$' among the first n bytes of s, 0 if none.
LastDollar(s, n) ==
    LET ds == {i \in 1..n : s[i] = 36}
    IN  IF ds = {} THEN 0 ELSE CHOOSE i \in ds : \A j \in ds : j <= i

\* This step hands the next byte of the stream to gps_process_char.
GpsFeedStep == last'.op = "char" /\ pos' = pos + 1

\* C34: a '$' received in any framer state (idle, inside a sentence, with a
\* full accumulator) leaves exactly "$" accumulated and the framer
\* ACCUMULATING, and changes nothing the application can observe; while a
\* sentence is accumulating the accumulated text is what the stream holds
\* from its last '$' on, so nothing of an abandoned sentence is validated;
\* the record changes only on an LF that ends the sentence in progress, and
\* the sentence that follows the '$' is parsed with its own values.
\* Checked under SpecRestart.
C34_DollarAbandonsPartialSentence ==
    [][ GpsFeedStep =>
          LET bytes == GpsTapeTable[tape]
              d == LastDollar(bytes, pos')
          IN  /\ NextByte = 36 =>
                    /\ Accumulated(gps') = <<36>>
                    /\ gps'.nmea_buffer[0] = 36
                    /\ gps'.sentence_in_progress
                    /\ GpsOutputs(gps') = GpsOutputs(gps)
              /\ (d > 0 /\ gps'.sentence_in_progress) =>
                    Accumulated(gps') = SubSeq(bytes, d, pos')
              /\ GpsOutputs(gps') # GpsOutputs(gps) =>
                    (NextByte = 10 /\ gps.sentence_in_progress)
              /\ (tape.kind \in {"restart", "restart_fill"} /\ pos' = Len(bytes)) =>
                    /\ gps'.data_updated
                    /\ ParsedAs(Tape("rmcv", 54, 66), gps')
                    /\ ~gps'.sentence_in_progress ]_vars

\* C34 witness: the '$' that follows a complete valid RMC sentence and its
\* CR has just been fed (the framer was accumulating that sentence); the
\* record is still the one of gps_init.
C34_Witness ==
    /\ tape = Tape("restart", Len(AbandonedText), 0)
    /\ pos = Len(AbandonedText) + 1
    /\ last.op = "char"
    /\ Accumulated(gps) = <<36>>
    /\ gps.sentence_in_progress
    /\ gps.nmea_buffer[1] = 71
    /\ ~gps.data_updated
    /\ ~gps.current_gps_data.seen_rmc

\* C34 witness for the full accumulator: the '$' that follows 82 accumulated
\* bytes has just been fed.
C34_WitnessFull ==
    /\ tape = Tape("restart_fill", 82, 0)
    /\ pos = 83
    /\ last.op = "char"
    /\ Accumulated(gps) = <<36>>
    /\ gps.sentence_in_progress
    /\ gps.nmea_buffer[NMEA_MAX_SENTENCE_LEN - 1] = 88

(***************************************************************************)
(* SpecBleUart: the brain node's BLE receive side fed with response lines  *)
(* of the BLE module, while the application asks for the connection        *)
(* status and may call ble_uart_init again.                                *)
(***************************************************************************)
\* "CONNECT" CR LF, "DISCONNECT" CR LF, "+DISCONNECT:0" LF, "CONNECTED" LF,
\* "OK" CR LF, "connect" LF, "DISCONN" LF, LF, "DISCONNECT" unterminated
UartLines ==
    <<ConnectText \o CRLF,
      DisconnectText \o CRLF,
      <<43>> \o DisconnectText \o <<58, 48, 10>>,
      ConnectText \o <<69, 68, 10>>,
      <<79, 75>> \o CRLF,
      <<99, 111, 110, 110, 101, 99, 116, 10>>,
      <<68, 73, 83, 67, 79, 78, 78, 10>>,
      <<10>>,
      DisconnectText>>

UartTapes == {Tape("uart_line", i, 0) : i \in 1..Len(UartLines)}

UartTapeTable ==
    [t \in UartTapes \cup {NoTape} |->
        IF t.kind = "none" THEN <<>> ELSE UartLines[t.a]]

UartNextTape ==
    /\ pos = Len(UartTapeTable[tape])
    /\ nTapes < MaxTapes
    /\ tape' \in UartTapes
    /\ pos' = 0
    /\ nTapes' = nTapes + 1
    /\ last' = Call("tape", TRUE, <<>>)
    /\ UNCHANGED <<rbVars, spscVars, gps, ble, moduleVars>>

\* The byte the next UartFeed step hands to ble_uart_process_char.
UartNextByte == UartTapeTable[tape][pos + 1]

\* process_communication: ble_uart_process_char((uint8_t)data)
UartFeed ==
    /\ pos < Len(UartTapeTable[tape])
    /\ ble_uart' = ble_uart_process_char(ble_uart, UartNextByte)
    /\ pos' = pos + 1
    /\ last' = Call("char", TRUE, <<UartNextByte>>)
    /\ UNCHANGED <<rbVars, spscVars, gps, ble, tape, nTapes, sig, readings>>

\* application: ble_uart_is_connected()
UartIsConnected ==
    /\ last' = Call("is_connected", ble_uart_is_connected(ble_uart), <<>>)
    /\ UNCHANGED <<rbVars, spscVars, framerVars, moduleVars>>

\* application: ble_uart_init()
UartInit ==
    /\ ble_uart' = ble_uart_init(ble_uart)
    /\ last' = Call("uart_init", TRUE, <<>>)
    /\ UNCHANGED <<rbVars, spscVars, framerVars, sig, readings>>

NextBleUart ==
    \/ UartNextTape
    \/ UartFeed
    \/ UartIsConnected
    \/ UartInit

SpecBleUart == InitGps /\ [][NextBleUart]_vars

\* The line received so far on the brain node, without one trailing CR.
UartLine ==
    StripCR([k \in 1..ble_uart.ble_rx_idx |->
                ble_rx_buffer_get(ble_uart.ble_rx_buffer, k - 1)])

\* C35: when a line is terminated, ble_uart_is_connected() is false
\* afterwards if the line contains "DISCONNECT", true if it contains
\* "CONNECT" and not "DISCONNECT", and unchanged for any other line.
\* Checked under SpecBleUart.
C35_ConnectionFollowsLine ==
    [][ ( /\ last'.op = "char"
          /\ pos' = pos + 1
          /\ UartNextByte = 10 )
        => ble_uart_is_connected(ble_uart') =
              ( IF strstr(UartLine, DisconnectText) THEN FALSE
                ELSE IF strstr(UartLine, ConnectText) THEN TRUE
                ELSE ble_uart_is_connected(ble_uart) ) ]_vars

\* C36: the connected flag is false as long as nothing was received after
\* ble_rx_init; while it is false no record is marked updated, and it
\* becomes true in exactly the step whose terminator makes the framer parse
\* a NAV or STATUS frame successfully (a record becomes updated), which
\* every line that supplies a record's fields does; once true, no
\* ble_rx_process_char, ble_rx_get_nav_data or ble_rx_get_status_data call
\* resets it.  Checked under SpecLines.
C36_ConnectedLatches ==
    [][ /\ nTapes = 0 => ~ble_rx_is_connected(ble)
        /\ ~ble_rx_is_connected(ble) =>
              /\ ~ble.current_nav_data.updated
              /\ ~ble.current_status_data.updated
              /\ ble_rx_is_connected(ble') <=>
                    ( /\ TerminatesLine
                      /\ \/ ble'.current_nav_data.updated
                         \/ ble'.current_status_data.updated )
        /\ ( /\ TerminatesLine
             /\ \/ SuppliesNavFields(BleAccumulated(ble))
                \/ SuppliesStatusFields(BleAccumulated(ble)) )
              => ble_rx_is_connected(ble')
        /\ ble_rx_is_connected(ble) => ble_rx_is_connected(ble') ]_vars

\* C36 witness: the flag is still set although no record is waiting to be
\* retrieved and a rejected line ("STATUS:100") has just been received.
C36_Witness ==
    /\ ble_rx_is_connected(ble)
    /\ ~ble.current_nav_data.updated
    /\ ~ble.current_status_data.updated
    /\ tape = Tape("malformed", 6, 0)
    /\ pos = Len(BleTapeTable[tape])
    /\ last.op = "char"

(***************************************************************************)
(* SpecWrap: the telemetry framer fed with NAV and STATUS lines whose      *)
(* numeric fields lie at and beyond the width of the record fields, while  *)
(* the application polls the records.                                      *)
(***************************************************************************)
WrapNextTape ==
    /\ pos = Len(BleTapeTable[tape])
    /\ nTapes < MaxTapes
    /\ tape' \in WrapTapes
    /\ pos' = 0
    /\ nTapes' = nTapes + 1
    /\ last' = Call("tape", TRUE, <<>>)
    /\ UNCHANGED <<rbVars, spscVars, gps, ble, moduleVars>>

NextWrap ==
    \/ WrapNextTape
    \/ BleFeed
    \/ BleGetNav
    \/ BleGetStatus

SpecWrap == InitGps /\ [][NextWrap]_vars

\* The number a text of decimal digits denotes.
RECURSIVE DecimalValue(_)
DecimalValue(s) ==
    IF s = <<>> THEN 0
    ELSE 10 * DecimalValue(SubSeq(s, 1, Len(s) - 1)) + (s[Len(s)] - 48)

\* C37: numeric fields are stored modulo the width of their field.  When
\* the terminator of a STATUS line with three unsigned fields b, s, v is
\* processed the record holds battery_mv = b mod 2^16, signal_status =
\* s mod 2^8, speed_kmh = v mod 2^8 and is marked updated; for a NAV line
\* with distance d it holds distance_m = d mod 2^16 with the instruction
\* text.  Values inside the range are therefore stored as they are, values
\* outside are accepted and wrapped.  Checked under SpecWrap.
C37_FieldsStoredModuloWidth ==
    [][ TerminatesLine =>
          LET line == BleAccumulated(ble)
          IN  /\ SuppliesStatusFields(line) =>
                    LET f == FieldsOf(SubSeq(line, Len(StatusPrefix) + 1, Len(line)))
                    IN  ble'.current_status_data =
                            [battery_mv |-> DecimalValue(f[1]) % 65536,
                             signal_status |-> DecimalValue(f[2]) % 256,
                             speed_kmh |-> DecimalValue(f[3]) % 256,
                             updated |-> TRUE]
              /\ SuppliesNavFields(line) =>
                    LET f == FieldsOf(SubSeq(line, Len(NavPrefix) + 1, Len(line)))
                    IN  ble'.current_nav_data =
                            [instruction |-> f[1],
                             distance_m |-> DecimalValue(f[2]) % 65536,
                             updated |-> TRUE] ]_vars

\* C37 witness: "STATUS:70000,300,256" has just been parsed; the record
\* holds 4464, 44 and 0.
C37_Witness ==
    /\ tape = Tape("status_num", 1, 0)
    /\ pos = Len(BleTapeTable[tape])
    /\ last.op = "char"
    /\ ble.current_status_data =
          [battery_mv |-> 4464, signal_status |-> 44, speed_kmh |-> 0, updated |-> TRUE]

\* C37 witness for NAV: "NAV:Turn left,65536" has just been parsed; the
\* record holds distance 0.
C37_WitnessNav ==
    /\ tape = Tape("nav_num", 2, 0)
    /\ pos = Len(BleTapeTable[tape])
    /\ last.op = "char"
    /\ ble.current_nav_data =
          [instruction |-> TurnLeftText, distance_m |-> 0, updated |-> TRUE]

(***************************************************************************)
(* modules/signal_detector.c.  The turn-signal inputs are active low with  *)
(* pull-ups: a pin reads FALSE while its signal is on.  The module's clock *)
(* is get_current_time_ms, whose static time_ms advances by 10 on every    *)
(* call; debounce_signal calls it once, so one signal_detector_update      *)
(* advances the clock by 20.  time_ms is a uint32_t; the behaviours        *)
(* checked end long before it wraps.                                       *)
(***************************************************************************)
SIGNAL_DEBOUNCE_TIME_MS == 50

\* get_current_time_ms: the statics after the call; the value returned is
\* their time_ms
get_current_time_ms(s) == [s EXCEPT !.time_ms = s.time_ms + 10]

\* Mutant: the debounced state follows the raw state as soon as a reading
\* confirms it, whatever time has passed.
debounce_signal_NoWait(current_pin_state, raw_state, debounced_state, last_change_time, now) ==
    IF current_pin_state # raw_state
    THEN [raw_state |-> current_pin_state, debounced_state |-> debounced_state,
          last_change_time |-> now, state_changed |-> FALSE]
    ELSE IF debounced_state # raw_state
    THEN [raw_state |-> raw_state, debounced_state |-> raw_state,
          last_change_time |-> last_change_time, state_changed |-> TRUE]
    ELSE [raw_state |-> raw_state, debounced_state |-> debounced_state,
          last_change_time |-> last_change_time, state_changed |-> FALSE]

\* debounce_signal with the pin level it reads and the time it takes:
\* [raw_state, debounced_state, last_change_time, state_changed]
debounce_signal(current_pin_state, raw_state, debounced_state, last_change_time, now) ==
    IF current_pin_state # raw_state
    THEN [raw_state |-> current_pin_state, debounced_state |-> debounced_state,
          last_change_time |-> now, state_changed |-> FALSE]
    ELSE IF now - last_change_time >= SIGNAL_DEBOUNCE_TIME_MS /\ debounced_state # raw_state
    THEN [raw_state |-> raw_state, debounced_state |-> raw_state,
          last_change_time |-> last_change_time, state_changed |-> TRUE]
    ELSE [raw_state |-> raw_state, debounced_state |-> debounced_state,
          last_change_time |-> last_change_time, state_changed |-> FALSE]

\* signal_detector_init with the levels read from the left and right pin
signal_detector_init(s, left_pin, right_pin) ==
    LET s1 == get_current_time_ms(s)
    IN  [s1 EXCEPT !.left_signal_raw_state = left_pin,
                   !.left_signal_debounced_state = left_pin,
                   !.right_signal_raw_state = right_pin,
                   !.right_signal_debounced_state = right_pin,
                   !.left_signal_last_change_time_ms = s1.time_ms,
                   !.right_signal_last_change_time_ms = s1.time_ms,
                   !.current_signal_state = "OFF"]

\* signal_detector_update with the levels its two debounce_signal calls read
signal_detector_update(s, left_pin, right_pin) ==
    LET s1 == get_current_time_ms(s)
        l == debounce_signal(left_pin, s.left_signal_raw_state,
                             s.left_signal_debounced_state,
                             s.left_signal_last_change_time_ms, s1.time_ms)
        s2 == get_current_time_ms(s1)
        r == debounce_signal(right_pin, s.right_signal_raw_state,
                             s.right_signal_debounced_state,
                             s.right_signal_last_change_time_ms, s2.time_ms)
        left_on == ~l.debounced_state
        right_on == ~r.debounced_state
        new_state == IF left_on /\ right_on THEN "HAZARD"
                     ELSE IF left_on THEN "LEFT"
                     ELSE IF right_on THEN "RIGHT"
                     ELSE "OFF"
    IN  [current_signal_state |-> new_state,
         left_signal_raw_state |-> l.raw_state,
         left_signal_debounced_state |-> l.debounced_state,
         left_signal_last_change_time_ms |-> l.last_change_time,
         right_signal_raw_state |-> r.raw_state,
         right_signal_debounced_state |-> r.debounced_state,
         right_signal_last_change_time_ms |-> r.last_change_time,
         time_ms |-> s2.time_ms]

signal_detector_get_state(s) == s.current_signal_state

(***************************************************************************)
(* SpecSignal: main calls signal_detector_init once and then               *)
(* signal_detector_update up to MaxUpdates times, the pins taking any      *)
(* levels; the application asks for the state at any time.  readings       *)
(* records, per call, the level read from each pin and the clock value     *)
(* the module took for that reading.                                       *)
(***************************************************************************)
\* main: signal_detector_init()
SignalInit ==
    /\ readings = <<>>
    /\ \E left_pin \in BOOLEAN, right_pin \in BOOLEAN :
          /\ sig' = signal_detector_init(sig, left_pin, right_pin)
          /\ readings' = <<[left |-> left_pin, right |-> right_pin,
                            left_time |-> sig'.time_ms, right_time |-> sig'.time_ms]>>
    /\ last' = Call("signal_init", TRUE, <<>>)
    /\ UNCHANGED <<rbVars, spscVars, framerVars, ble_uart>>

\* main loop: signal_detector_update()
SignalUpdate ==
    /\ readings # <<>>
    /\ Len(readings) <= MaxUpdates
    /\ \E left_pin \in BOOLEAN, right_pin \in BOOLEAN :
          /\ sig' = signal_detector_update(sig, left_pin, right_pin)
          /\ readings' = Append(readings,
                                [left |-> left_pin, right |-> right_pin,
                                 left_time |-> sig.time_ms + 10,
                                 right_time |-> sig.time_ms + 20])
    /\ last' = Call("signal_update", TRUE, <<>>)
    /\ UNCHANGED <<rbVars, spscVars, framerVars, ble_uart>>

\* application: signal_detector_get_state()
SignalGetState ==
    /\ last' = Call("signal_get_state", TRUE, <<signal_detector_get_state(sig)>>)
    /\ UNCHANGED <<rbVars, spscVars, framerVars, moduleVars>>

NextSignal ==
    \/ SignalInit
    \/ SignalUpdate
    \/ SignalGetState

SpecSignal == InitGps /\ [][NextSignal]_vars

\* The left (right) pin has read level v in every reading from one taken at
\* least SIGNAL_DEBOUNCE_TIME_MS before the latest reading up to the latest.
LeftStableFor50ms(rs, v) ==
    \E i \in 1..Len(rs) :
        /\ rs[Len(rs)].left_time - rs[i].left_time >= SIGNAL_DEBOUNCE_TIME_MS
        /\ \A j \in i..Len(rs) : rs[j].left = v

RightStableFor50ms(rs, v) ==
    \E i \in 1..Len(rs) :
        /\ rs[Len(rs)].right_time - rs[i].right_time >= SIGNAL_DEBOUNCE_TIME_MS
        /\ \A j \in i..Len(rs) : rs[j].right = v

\* The signal state that belongs to the debounced inputs (low = on).
SignalStateOf(left_debounced, right_debounced) ==
    IF ~left_debounced /\ ~right_debounced THEN "HAZARD"
    ELSE IF ~left_debounced THEN "LEFT"
    ELSE IF ~right_debounced THEN "RIGHT"
    ELSE "OFF"

\* C38: a debounced pin state changes only in a signal_detector_update
\* whose readings of that pin have been equal to the new value continuously
\* for at least 50 ms of the module's clock, so a raw change that reverts
\* earlier changes neither the debounced state nor the value of
\* signal_detector_get_state(); after each update that value is HAZARD,
\* LEFT, RIGHT or OFF according to which debounced inputs are low, and no
\* other call changes it.  Checked under SpecSignal.
C38_DebouncedChangeNeedsStableInput ==
    [][ /\ last'.op = "signal_update" =>
              /\ sig'.left_signal_debounced_state # sig.left_signal_debounced_state
                    => LeftStableFor50ms(readings', sig'.left_signal_debounced_state)
              /\ sig'.right_signal_debounced_state # sig.right_signal_debounced_state
                    => RightStableFor50ms(readings', sig'.right_signal_debounced_state)
              /\ signal_detector_get_state(sig') =
                    SignalStateOf(sig'.left_signal_debounced_state,
                                  sig'.right_signal_debounced_state)
              /\ ( /\ Len(readings) > 1
                   /\ sig'.left_signal_debounced_state = sig.left_signal_debounced_state
                   /\ sig'.right_signal_debounced_state = sig.right_signal_debounced_state )
                    => signal_detector_get_state(sig') = signal_detector_get_state(sig)
        /\ last'.op # "signal_update" =>
              /\ readings # <<>> =>
                    /\ sig'.left_signal_debounced_state = sig.left_signal_debounced_state
                    /\ sig'.right_signal_debounced_state = sig.right_signal_debounced_state
              /\ signal_detector_get_state(sig') = signal_detector_get_state(sig) ]_vars

\* C38 witness: the left signal was debounced on (after the pin had read
\* low for 60 ms), then the pin read high once and low again, and the state
\* is still LEFT.
C38_Witness ==
    /\ Len(readings) = 7
    /\ [i \in 1..7 |-> readings[i].left] = <<TRUE, FALSE, FALSE, FALSE, FALSE, TRUE, FALSE>>
    /\ \A i \in 1..7 : readings[i].right
    /\ ~sig.left_signal_debounced_state
    /\ signal_detector_get_state(sig) = "LEFT"
    /\ last.op = "signal_update"

=============================================================================
